---- MODULE Spec2Model ----
(***************************************************************************)
(* Model of the document processor: the format router (get_processor),    *)
(* the two command-line entry points (extract_document.main and            *)
(* generate_chunks.main), the three chunking strategies and the RAG        *)
(* generator with its keyword extraction.                                  *)
(*                                                                         *)
(* Python strings are modelled as sequences of one-character strings, so   *)
(* that len(), lower(), split(), strip() and join() are computed and not   *)
(* assumed.                                                                *)
(***************************************************************************)
EXTENDS Integers, Sequences, FiniteSets, TLC

VARIABLES
    prog,        \* which entry point runs: "extract_document" / "generate_chunks"
    argv,        \* sys.argv[1:], a sequence of strings
    stdin,       \* what generate_chunks.main reads from standard input
    pc,          \* position inside main()
    processor,   \* the extractor get_processor returned (None before)
    result,      \* the value main() is about to serialise
    raised,      \* the message of the exception being handled (None if none)
    stdout,      \* what was printed on standard output (None: nothing)
    stderr,      \* what was printed on standard error (None: nothing)
    exit_code,   \* the process exit code (None while running)
    doc,         \* processed_doc handed to RAGGenerator.generate_chunks
    doc_after,   \* the same dict object as the calls made so far have left it
    strategy,    \* the chunking strategy object (its class and fields)
    config,      \* the strategy name and keyword arguments given to RAGGenerator
    call,        \* library call made: "none", "chunk", "generate_chunks"
    out,         \* outcome of that call
    kw_text,     \* text handed to RAGGenerator._extract_keywords
    kw_out,      \* its returned keyword list (None before the call)
    proc,        \* the extractor class whose process(file_path) runs
    file,        \* the file at file_path and the libraries importable
    ppc,         \* position inside process()
    res,         \* the result dict process() builds and returns
    perr,        \* the exception process() raised (None if none)
    handles,     \* the document/file handles opened so far and whether each is open
    loop         \* locals of PDFProcessor._extract_text_and_formulas

cliVars == <<prog, argv, stdin, pc, processor, result, raised, stdout, stderr, exit_code>>
genVars == <<doc, doc_after, config, strategy, call, out>>
kwVars == <<kw_text, kw_out>>
procVars == <<proc, file, ppc, res, perr, handles, loop>>
vars == <<prog, argv, stdin, pc, processor, result, raised, stdout, stderr, exit_code,
          doc, doc_after, config, strategy, call, out, kw_text, kw_out,
          proc, file, ppc, res, perr, handles, loop>>

\* Python's None, and a value that is not a str (a JSON number): one-element
\* sequences holding a token that is no character, so that they differ from
\* every str, which is a sequence of one-character strings
None == <<"None">>
NonStr == <<"int">>

-----------------------------------------------------------------------------
(* Python str primitives                                                   *)

LowerMap ==
    [A |-> "a", B |-> "b", C |-> "c", D |-> "d", E |-> "e", F |-> "f", G |-> "g",
     H |-> "h", I |-> "i", J |-> "j", K |-> "k", L |-> "l", M |-> "m", N |-> "n",
     O |-> "o", P |-> "p", Q |-> "q", R |-> "r", S |-> "s", T |-> "t", U |-> "u",
     V |-> "v", W |-> "w", X |-> "x", Y |-> "y", Z |-> "z"]

LowerChar(ch) == IF ch \in DOMAIN LowerMap THEN LowerMap[ch] ELSE ch

\* str.lower()
Lower(s) == [i \in 1..Len(s) |-> LowerChar(s[i])]

UpperChar(ch) ==
    IF \E k \in DOMAIN LowerMap : LowerMap[k] = ch
    THEN CHOOSE k \in DOMAIN LowerMap : LowerMap[k] = ch
    ELSE ch

\* str.upper()
Upper(s) == [i \in 1..Len(s) |-> UpperChar(s[i])]

\* the position of the last occurrence of ch in s, 0 when there is none
LastIndexOf(s, ch) ==
    IF \E i \in 1..Len(s) : s[i] = ch
    THEN CHOOSE i \in 1..Len(s) : s[i] = ch /\ \A j \in (i+1)..Len(s) : s[j] # ch
    ELSE 0

\* s[from:] with a 1-based first position
Tail_(s, from) == SubSeq(s, from, Len(s))

-----------------------------------------------------------------------------
(* pathlib.Path(p).suffix as get_processor uses it                         *)

\* the final path component
PathName(p) == Tail_(p, LastIndexOf(p, "/") + 1)

\* the final component's last dot and what follows it; empty when the name
\* has no dot, starts with its only dot, or ends with the dot
PathSuffix(p) ==
    LET name == PathName(p)
        i == LastIndexOf(name, ".")
    IN  IF 1 < i /\ i < Len(name) THEN Tail_(name, i) ELSE <<>>

-----------------------------------------------------------------------------
(* processors/__init__.py: get_processor                                   *)

PdfExts == { <<".", "p", "d", "f">> }
DocxExts == { <<".", "d", "o", "c", "x">>, <<".", "d", "o", "c">> }
ExcelExts == { <<".", "x", "l", "s", "x">>, <<".", "x", "l", "s">>, <<".", "c", "s", "v">> }
PptxExts == { <<".", "p", "p", "t", "x">>, <<".", "p", "p", "t">> }
TextExts == { <<".", "t", "x", "t">>, <<".", "m", "d">>, <<".", "r", "s", "t">> }

\* variant of RoutedExt that always takes the extension from the path
RoutedExtIgnoringOriginal(file_path, original_name) ==
    Lower(PathSuffix(file_path))

\* the extension get_processor dispatches on; an empty or missing
\* original_name is falsy and selects the path
RoutedExt(file_path, original_name) ==
    IF original_name # None /\ original_name # <<>>
    THEN Lower(PathSuffix(original_name))
    ELSE Lower(PathSuffix(file_path))

Unsupported == "Unsupported"

\* variant of ProcessorForExt whose final branch returns the text extractor
ProcessorForExtFallsBackToText(ext) ==
    CASE ext \in PdfExts -> "PDFProcessor"
      [] ext \in DocxExts -> "DOCXProcessor"
      [] ext \in ExcelExts -> "ExcelProcessor"
      [] ext \in PptxExts -> "PPTXProcessor"
      [] OTHER -> "TextProcessor"

\* the if/elif chain on ext
ProcessorForExt(ext) ==
    CASE ext \in PdfExts -> "PDFProcessor"
      [] ext \in DocxExts -> "DOCXProcessor"
      [] ext \in ExcelExts -> "ExcelProcessor"
      [] ext \in PptxExts -> "PPTXProcessor"
      [] ext \in TextExts -> "TextProcessor"
      [] OTHER -> Unsupported

\* get_processor: either a processor, or ValueError("Unsupported file type: ext")
get_processor(file_path, original_name) ==
    LET ext == RoutedExt(file_path, original_name)
        p == ProcessorForExt(ext)
    IN  IF p # Unsupported
        THEN [raised |-> None, processor |-> p]
        ELSE [raised |-> <<"ValueError: Unsupported file type: ">> \o ext,
              processor |-> Unsupported]

-----------------------------------------------------------------------------
(* str.split(), str.split(sep), str.strip(), sep.join() and the sentence   *)
(* regular expression                                                      *)

IsSpace(ch) == ch \in {" ", "\n", "\t", "\r"}

\* str.split(): the maximal runs of non-whitespace characters, in order
SplitWhitespace(s) ==
    LET starts == {i \in 1..Len(s) : ~IsSpace(s[i]) /\ (i = 1 \/ IsSpace(s[i-1]))}
        EndOf(i) == CHOOSE j \in i..Len(s) :
                        /\ \A m \in i..j : ~IsSpace(s[m])
                        /\ (j = Len(s) \/ IsSpace(s[j+1]))
        Nth(k) == CHOOSE i \in starts : Cardinality({j \in starts : j < i}) = k - 1
    IN  [k \in 1..Cardinality(starts) |-> SubSeq(s, Nth(k), EndOf(Nth(k)))]

\* str.strip()
Strip(s) ==
    LET keep == {i \in 1..Len(s) : ~IsSpace(s[i])}
    IN  IF keep = {} THEN <<>>
        ELSE SubSeq(s, CHOOSE i \in keep : \A j \in keep : i <= j,
                       CHOOSE i \in keep : \A j \in keep : j <= i)

ParagraphSep == <<"\n", "\n">>

\* text.split('\n\n'): cut at each occurrence of the separator, scanning
\* left to right without overlap; always at least one piece
RECURSIVE SplitParagraphs(_)
SplitParagraphs(s) ==
    LET hits == {i \in 1..(Len(s) - 1) : s[i] = "\n" /\ s[i+1] = "\n"}
    IN  IF hits = {} THEN <<s>>
        ELSE LET i == CHOOSE i \in hits : \A j \in hits : i <= j
             IN  <<SubSeq(s, 1, i - 1)>> \o SplitParagraphs(Tail_(s, i + 2))

\* sep.join(parts)
RECURSIVE Join(_, _)
Join(parts, sep) ==
    IF Len(parts) = 0 THEN <<>>
    ELSE IF Len(parts) = 1 THEN parts[1]
    ELSE parts[1] \o sep \o Join(Tail(parts), sep)

IsSentenceEnd(ch) == ch \in {".", "!", "?"}

\* re.split(r'(?<=[.!?])\s+', text): cut out every whitespace run that
\* directly follows '.', '!' or '?'; always at least one piece
RECURSIVE SplitSentences(_)
SplitSentences(s) ==
    LET hits == {p \in 2..Len(s) : IsSentenceEnd(s[p-1]) /\ IsSpace(s[p])}
    IN  IF hits = {} THEN <<s>>
        ELSE LET p == CHOOSE p \in hits : \A q \in hits : p <= q
                 e == CHOOSE e \in p..Len(s) :
                          /\ \A m \in p..e : IsSpace(s[m])
                          /\ (e = Len(s) \/ ~IsSpace(s[e+1]))
             IN  <<SubSeq(s, 1, p - 1)>> \o SplitSentences(Tail_(s, e + 1))

\* variant of Slice that runs to the end of the sequence
SliceToEnd(seq, i, n) == SubSeq(seq, i + 1, Len(seq))

\* seq[i:i+n] for a 0-based i >= 0 and n >= 0 (slices clamp at the end)
Slice(seq, i, n) ==
    SubSeq(seq, i + 1, IF i + n < Len(seq) THEN i + n ELSE Len(seq))

-----------------------------------------------------------------------------
(* generators/chunking_strategies.py                                       *)

\* a Python object passed as metadata: its identity and, for a dict, its
\* items as a set of key/value pairs; NoneObj is None
EmptyItems == {}
NoneObj == [id |-> <<"None", 0>>, items |-> EmptyItems]
Truthy(obj) == obj.items # EmptyItems

\* variant of MetadataOrNew that hands every chunk its own copy of the mapping
MetadataCopied(metadata, k) ==
    [id |-> <<"new", k>>, items |-> metadata.items]

\* `metadata or {}` evaluated while building the chunk at position k:
\* the caller's object when it is truthy, else a new empty dict
MetadataOrNew(metadata, k) ==
    IF Truthy(metadata) THEN metadata
    ELSE [id |-> <<"new", k>>, items |-> EmptyItems]

FixedSizeChunking(chunk_size, overlap) ==
    [class |-> "FixedSizeChunking", chunk_size |-> chunk_size, overlap |-> overlap]
SemanticChunking(min_chunk_size, max_chunk_size) ==
    [class |-> "SemanticChunking", min_chunk_size |-> min_chunk_size,
     max_chunk_size |-> max_chunk_size]
SentenceChunking(sentences_per_chunk, overlap_sentences) ==
    [class |-> "SentenceChunking", sentences_per_chunk |-> sentences_per_chunk,
     overlap_sentences |-> overlap_sentences]

\* the dict literal FixedSizeChunking.chunk appends in the iteration at i
FixedChunkDict(chunks, i, chunk_words, metadata) ==
    LET chunk_text == Join(chunk_words, <<" ">>)
    IN  [text |-> chunk_text,
         chunk_index |-> Len(chunks),
         char_count |-> Len(chunk_text),
         word_count |-> Len(chunk_words),
         metadata |-> MetadataOrNew(metadata, Len(chunks))]

\* variant of FixedStep that advances by a whole window
FixedStepNoOverlap(self) == self.chunk_size

\* the stride of FixedSizeChunking's range()
FixedStep(self) == self.chunk_size - self.overlap

\* for i in range(i, len(words), step), step > 0
RECURSIVE FixedLoop(_, _, _, _, _)
FixedLoop(self, words, metadata, i, chunks) ==
    IF i >= Len(words) THEN chunks
    ELSE FixedLoop(self, words, metadata, i + FixedStep(self),
                   Append(chunks, FixedChunkDict(chunks, i,
                                     Slice(words, i, self.chunk_size), metadata)))

\* variant of FixedChunk that advances by one word when the stride is not
\* positive
FixedChunkClampedStep(self, text, metadata) ==
    LET words == SplitWhitespace(text)
        clamped == IF FixedStep(self) > 0 THEN self
                   ELSE FixedSizeChunking(self.chunk_size, self.chunk_size - 1)
    IN  [raised |-> None, chunks |-> FixedLoop(clamped, words, metadata, 0, <<>>)]

\* FixedSizeChunking.chunk: range() raises on a zero step and is empty on
\* a negative one
FixedChunk(self, text, metadata) ==
    LET words == SplitWhitespace(text)
    IN  IF FixedStep(self) = 0
        THEN [raised |-> <<"ValueError: range() arg 3 must not be zero">>, chunks |-> <<>>]
        ELSE IF FixedStep(self) < 0
        THEN [raised |-> None, chunks |-> <<>>]
        ELSE [raised |-> None, chunks |-> FixedLoop(self, words, metadata, 0, <<>>)]

\* variant of SemanticCharCount that reuses the running sum of paragraph
\* lengths, which leaves out the separators
SemanticCharCountFromLengths(current_chunk) ==
    LET RECURSIVE Sum(_)
        Sum(ps) == IF ps = <<>> THEN 0 ELSE Len(Head(ps)) + Sum(Tail(ps))
    IN  Sum(current_chunk)

\* len(chunk_text) of the chunk being flushed
SemanticCharCount(current_chunk) == Len(Join(current_chunk, ParagraphSep))

\* the dict literal SemanticChunking.chunk appends when it flushes
SemanticChunkDict(chunks, current_chunk, metadata) ==
    LET chunk_text == Join(current_chunk, ParagraphSep)
    IN  [text |-> chunk_text,
         chunk_index |-> Len(chunks),
         char_count |-> SemanticCharCount(current_chunk),
         word_count |-> Len(SplitWhitespace(chunk_text)),
         metadata |-> MetadataOrNew(metadata, Len(chunks))]

\* variant of SemanticParagraph that keeps the surrounding whitespace
SemanticParagraphUnstripped(para) == para

\* para = para.strip()
SemanticParagraph(para) == Strip(para)

\* for para in paragraphs, from position k on, and the trailing flush
RECURSIVE SemanticLoop(_, _, _, _, _, _, _)
SemanticLoop(self, paragraphs, metadata, k, current_chunk, current_length, chunks) ==
    IF k > Len(paragraphs)
    THEN IF current_chunk # <<>>
         THEN Append(chunks, SemanticChunkDict(chunks, current_chunk, metadata))
         ELSE chunks
    ELSE LET para == SemanticParagraph(paragraphs[k])
             para_length == Len(para)
         IN  IF para = <<>>
             THEN SemanticLoop(self, paragraphs, metadata, k + 1,
                               current_chunk, current_length, chunks)
             ELSE IF current_length + para_length > self.max_chunk_size
                     /\ current_chunk # <<>>
             THEN SemanticLoop(self, paragraphs, metadata, k + 1,
                               <<para>>, para_length,
                               Append(chunks,
                                      SemanticChunkDict(chunks, current_chunk, metadata)))
             ELSE SemanticLoop(self, paragraphs, metadata, k + 1,
                               Append(current_chunk, para),
                               current_length + para_length, chunks)

\* variant of SemanticChunk that enforces min_chunk_size as a lower bound
SemanticChunkEnforcingMin(self, text, metadata) ==
    [raised |-> None,
     chunks |-> SelectSeq(SemanticLoop(self, SplitParagraphs(text), metadata, 1, <<>>, 0, <<>>),
                          LAMBDA c : c.char_count >= self.min_chunk_size)]

\* SemanticChunking.chunk
SemanticChunk(self, text, metadata) ==
    [raised |-> None,
     chunks |-> SemanticLoop(self, SplitParagraphs(text), metadata, 1, <<>>, 0, <<>>)]

\* variant of SentenceChunkDict that numbers the chunks from 1
SentenceChunkDictIndexFromOne(chunks, chunk_sentences, metadata) ==
    LET chunk_text == Join(chunk_sentences, <<" ">>)
    IN  [text |-> chunk_text,
         chunk_index |-> Len(chunks) + 1,
         char_count |-> Len(chunk_text),
         word_count |-> Len(SplitWhitespace(chunk_text)),
         sentence_count |-> Len(chunk_sentences),
         metadata |-> MetadataOrNew(metadata, Len(chunks))]

\* the dict literal SentenceChunking.chunk appends
SentenceChunkDict(chunks, chunk_sentences, metadata) ==
    LET chunk_text == Join(chunk_sentences, <<" ">>)
    IN  [text |-> chunk_text,
         chunk_index |-> Len(chunks),
         char_count |-> Len(chunk_text),
         word_count |-> Len(SplitWhitespace(chunk_text)),
         sentence_count |-> Len(chunk_sentences),
         metadata |-> MetadataOrNew(metadata, Len(chunks))]

\* variant of SentenceStep that advances by a whole window
SentenceStepNoOverlap(self) == self.sentences_per_chunk

\* the stride of SentenceChunking's range()
SentenceStep(self) == self.sentences_per_chunk - self.overlap_sentences

RECURSIVE SentenceLoop(_, _, _, _, _)
SentenceLoop(self, sentences, metadata, i, chunks) ==
    IF i >= Len(sentences) THEN chunks
    ELSE SentenceLoop(self, sentences, metadata, i + SentenceStep(self),
                      Append(chunks, SentenceChunkDict(chunks,
                                Slice(sentences, i, self.sentences_per_chunk), metadata)))

SentenceChunk(self, text, metadata) ==
    LET sentences == SplitSentences(text)
    IN  IF SentenceStep(self) = 0
        THEN [raised |-> <<"ValueError: range() arg 3 must not be zero">>, chunks |-> <<>>]
        ELSE IF SentenceStep(self) < 0
        THEN [raised |-> None, chunks |-> <<>>]
        ELSE [raised |-> None, chunks |-> SentenceLoop(self, sentences, metadata, 0, <<>>)]

\* ChunkingStrategy.chunk, dispatched on the object's class; a text that is
\* not a str has no split() for any of the three
Chunk(self, text, metadata) ==
    CASE text = NonStr ->
            [raised |-> <<"AttributeError: object has no attribute 'split'">>,
             chunks |-> <<>>]
      [] self.class = "FixedSizeChunking" -> FixedChunk(self, text, metadata)
      [] self.class = "SemanticChunking" -> SemanticChunk(self, text, metadata)
      [] self.class = "SentenceChunking" -> SentenceChunk(self, text, metadata)

\* get_chunking_strategy(strategy_name, **kwargs); kwargs holds the two
\* constructor arguments of the class the name selects
\* variant of get_chunking_strategy that gives an unknown name the default strategy
get_chunking_strategy_or_default(strategy_name, a, b) ==
    CASE strategy_name = "fixed" -> [raised |-> None, chunker |-> FixedSizeChunking(a, b)]
      [] strategy_name = "semantic" -> [raised |-> None, chunker |-> SemanticChunking(a, b)]
      [] strategy_name = "sentence" -> [raised |-> None, chunker |-> SentenceChunking(a, b)]
      [] OTHER -> [raised |-> None, chunker |-> SemanticChunking(a, b)]

get_chunking_strategy(strategy_name, a, b) ==
    CASE strategy_name = "fixed" -> [raised |-> None, chunker |-> FixedSizeChunking(a, b)]
      [] strategy_name = "semantic" -> [raised |-> None, chunker |-> SemanticChunking(a, b)]
      [] strategy_name = "sentence" -> [raised |-> None, chunker |-> SentenceChunking(a, b)]
      [] OTHER -> [raised |-> <<"ValueError: Unknown chunking strategy: ", strategy_name>>,
                   chunker |-> [class |-> "None"]]

-----------------------------------------------------------------------------
(* generators/rag_generator.py                                             *)

\* processed_doc.get(key, default) on a dict modelled as a record that
\* holds only the keys present
Get(d, key, default) == IF key \in DOMAIN d THEN d[key] ELSE default

\* the stopwords set literal of _extract_keywords (the Korean particles are
\* written by code point)
Stopwords ==
    { <<"t","h","e">>, <<"a">>, <<"a","n">>, <<"a","n","d">>, <<"o","r">>,
      <<"b","u","t">>, <<"i","n">>, <<"o","n">>, <<"a","t">>, <<"t","o">>,
      <<"f","o","r">>, <<"o","f">>, <<"w","i","t","h">>, <<"b","y">>,
      <<"f","r","o","m">>, <<"a","s">>, <<"i","s">>, <<"w","a","s">>,
      <<"a","r","e">>, <<"w","e","r","e">>, <<"b","e","e","n">>,
      <<"U+C774">>, <<"U+ADF8">>, <<"U+C800">>, <<"U+AC83">>, <<"U+C218">>,
      <<"U+B4F1">>, <<"U+BC0F">>, <<"U+C5D0">>, <<"U+B97C">>, <<"U+C744">>,
      <<"U+C758">>, <<"U+AC00">> }

\* the slice bound of sorted_keywords[:20]
TopKeywords == 20

\* variant of IsKeyword that keeps the stopwords
IsKeywordNoStopwords(w) == Len(w) > 2

\* the list comprehension's condition on a token
IsKeyword(w) == Len(w) > 2 /\ w \notin Stopwords

\* seq[:n]
Prefix(seq, n) == SubSeq(seq, 1, IF n < Len(seq) THEN n ELSE Len(seq))

\* sorted_keywords[:20]
KeywordSlice(sorted_keywords) == Prefix(sorted_keywords, TopKeywords)

\* variant of ExtractKeywords whose sort puts, among keys of equal count, the later key first
ExtractKeywordsTiesLatestFirst(text) ==
    LET words == SplitWhitespace(Lower(text))
        at == {i \in 1..Len(words) : IsKeyword(words[i])}
        first == {i \in at : \A j \in at : j < i => words[j] # words[i]}
        Count(i) == Cardinality({j \in at : words[j] = words[i]})
        Rank(i) == Cardinality({j \in first :
                        \/ Count(j) > Count(i)
                        \/ Count(j) = Count(i) /\ j > i})
        sorted_keywords ==
            [r \in 1..Cardinality(first) |->
                words[CHOOSE i \in first : Rank(i) = r - 1]]
    IN  KeywordSlice(sorted_keywords)

\* RAGGenerator._extract_keywords
ExtractKeywords(text) ==
    LET words == SplitWhitespace(Lower(text))
        at == {i \in 1..Len(words) : IsKeyword(words[i])}
        \* word_freq: one key per distinct keyword, in order of first insertion
        first == {i \in at : \A j \in at : j < i => words[j] # words[i]}
        Count(i) == Cardinality({j \in at : words[j] = words[i]})
        \* sorted(..., key=count, reverse=True) is stable: a key goes after
        \* the keys with a larger count and after the earlier keys with the
        \* same count
        Rank(i) == Cardinality({j \in first :
                        \/ Count(j) > Count(i)
                        \/ Count(j) = Count(i) /\ j < i})
        sorted_keywords ==
            [r \in 1..Cardinality(first) |->
                words[CHOOSE i \in first : Rank(i) = r - 1]]
    IN  KeywordSlice(sorted_keywords)

\* variant of HasEntries that looks at the tables for every flag
HasEntriesOfTables(processed_doc, key) == Len(Get(processed_doc, "tables", <<>>)) > 0

\* len(processed_doc.get(key, [])) > 0
HasEntries(processed_doc, key) == Len(Get(processed_doc, key, <<>>)) > 0

\* len() of a collection that is None raises TypeError
EnrichRaises(processed_doc) ==
    \E key \in {"tables", "images", "formulas"} : Get(processed_doc, key, <<>>) = None

\* RAGGenerator._enrich_chunk: the four assignments into the chunk dict
EnrichChunk(chunk, processed_doc) ==
    [has_tables |-> HasEntries(processed_doc, "tables"),
     has_images |-> HasEntries(processed_doc, "images"),
     has_formulas |-> HasEntries(processed_doc, "formulas"),
     keywords |-> ExtractKeywords(chunk.text)] @@ chunk

\* variant of TextIsFalsy that only notices a missing key
TextIsFalsyOnlyWhenAbsent(processed_doc) == "text" \notin DOMAIN processed_doc

\* `if not text`: None, the empty str and an absent key (default '') are falsy
TextIsFalsy(processed_doc) ==
    LET text == Get(processed_doc, "text", <<>>)
    IN  text = <<>> \/ text = None

\* RAGGenerator.generate_chunks: what it returns or raises, and how many
\* times it called the chunking strategy
GenerateChunks(chunker, processed_doc) ==
    LET text == Get(processed_doc, "text", <<>>)
        metadata == Get(processed_doc, "metadata",
                        [id |-> <<"default", 0>>, items |-> EmptyItems])
    IN  IF TextIsFalsy(processed_doc)
        THEN [raised |-> None, chunks |-> <<>>, chunk_calls |-> 0]
        ELSE LET r == Chunk(chunker, text, metadata)
             IN  IF r.raised # None
                 THEN [raised |-> r.raised, chunks |-> <<>>, chunk_calls |-> 1]
                 ELSE IF r.chunks # <<>> /\ EnrichRaises(processed_doc)
                 THEN [raised |-> <<"TypeError: object of type 'NoneType' has no len()">>,
                       chunks |-> <<>>, chunk_calls |-> 1]
                 ELSE [raised |-> None,
                       chunks |-> [k \in 1..Len(r.chunks) |->
                                      EnrichChunk(r.chunks[k], processed_doc)],
                       chunk_calls |-> 1]

\* variant of AfterGet in which the lookup stores the default it falls
\* back to, as dict.setdefault does
AfterSetDefault(d, key, default) ==
    IF key \in DOMAIN d THEN d
    ELSE [k \in DOMAIN d \cup {key} |-> IF k = key THEN default ELSE d[k]]

\* the dict d after d.get(key, default): get() stores nothing
AfterGet(d, key, default) == d

\* processed_doc after generate_chunks: the lookups of lines 17-18, and
\* those of _enrich_chunk once a first chunk is enriched; nothing else
\* touches the dict, and no strategy writes to the metadata it is handed
DocumentAfter(chunker, processed_doc) ==
    LET looked_up ==
            AfterGet(AfterGet(processed_doc, "text", <<>>), "metadata",
                     [id |-> <<"default", 0>>, items |-> EmptyItems])
        r == Chunk(chunker, Get(processed_doc, "text", <<>>),
                   Get(processed_doc, "metadata",
                       [id |-> <<"default", 0>>, items |-> EmptyItems]))
    IN  IF TextIsFalsy(processed_doc) \/ r.raised # None \/ r.chunks = <<>>
        THEN looked_up
        ELSE AfterGet(AfterGet(AfterGet(looked_up, "tables", <<>>),
                               "images", <<>>), "formulas", <<>>)

-----------------------------------------------------------------------------
(* json.dumps / json.loads as the entry points use them                    *)

\* json.dumps(value): the JSON text, modelled by its top-level type and the
\* value it encodes
JsonDumpsObject(value) == [type |-> "object", value |-> value]
JsonDumpsArray(value) == [type |-> "array", value |-> value]

\* the error envelope {"error": str(e)}
ErrorEnvelope(message) == JsonDumpsObject([error |-> message])

IsErrorEnvelope(json) == json.type = "object" /\ DOMAIN json.value = {"error"}

-----------------------------------------------------------------------------
(* Inputs of the entry points                                              *)

SupportedExts == PdfExts \cup DocxExts \cup ExcelExts \cup PptxExts \cup TextExts
OtherExts == { <<".", "x", "y", "z">>, <<".", "p", "d">> }

\* an extension as written, in upper case, and with a capital first letter
CaseVariants(e) == { e, Upper(e), <<e[1], UpperChar(e[2])>> \o Tail_(e, 3) }

FileNames ==
    { <<"a">> \o v : v \in UNION { CaseVariants(e) : e \in SupportedExts \cup OtherExts } }
    \cup { <<"a">>,
           <<".", "p", "d", "f">>,
           <<"a", ".">>,
           <<"a", ".", "p", "d", "f", ".", "x", "y", "z">>,
           <<"a", ".", "x", "y", "z", ".", "p", "d", "f">> }

UploadDir == <<"/", "t", ".", "d", "/">>

FilePaths ==
    { UploadDir \o <<"a">> \o e : e \in SupportedExts \cup OtherExts }
    \cup { UploadDir \o <<"u">>, <<"a", ".", "P", "d", "F">> }

\* sys.argv[1:]: nothing, the path, or the path and the original name
\* (which may be the empty string)
ArgvValues ==
    { <<>> } \cup { <<f>> : f \in FilePaths }
    \cup { <<f, o>> : f \in FilePaths, o \in FileNames \cup { <<>> } }

\* what processor.process(file_path) can do: return a Document, return one
\* holding a value json.dumps cannot encode, or raise
SampleDocument ==
    [text |-> <<"a">>, tables |-> <<>>, images |-> <<>>, formulas |-> <<>>,
     metadata |-> [id |-> <<"doc", 0>>, items |-> EmptyItems]]

ProcessOutcomes ==
    { [raised |-> None, document |-> SampleDocument, serialisable |-> TRUE],
      [raised |-> None, document |-> SampleDocument, serialisable |-> FALSE],
      [raised |-> <<"RuntimeError: extraction failed">>, document |-> SampleDocument,
       serialisable |-> TRUE] }

\* values of the variables an entry point or call has not set yet
NoProcessor == "None"
NoDoc == [text |-> <<>>]
NoStrategy == [class |-> "None"]
NoOut == [raised |-> None, chunks |-> <<>>, chunk_calls |-> 0]

\* Texts: every concatenation of at most MaxPieces pieces, a piece being a
\* letter, a full stop, a blank or a blank line
MaxPieces == 4
Pieces == { <<"a">>, <<".">>, <<" ">>, ParagraphSep }

RECURSIVE TextsOf(_)
TextsOf(n) ==
    IF n = 0 THEN { <<>> }
    ELSE LET shorter == TextsOf(n - 1)
         IN  shorter \cup { t \o p : t \in shorter, p \in Pieces }

\* texts of words only, up to MaxWords words separated by single blanks
MaxWords == 3
WordTexts == { Join([i \in 1..n |-> <<"a">>], <<" ">>) : n \in 1..MaxWords }

Texts == TextsOf(MaxPieces) \cup WordTexts

\* the fields of a processed document other than its text: collections
\* absent, empty, non-empty or null, metadata absent, empty, non-empty or null
TitleMeta == [id |-> <<"doc", 0>>, items |-> { <<"title", "t">> }]
EmptyMeta == [id |-> <<"doc", 0>>, items |-> EmptyItems]
DocShapes ==
    { [metadata |-> EmptyMeta],
      [tables |-> <<"table_000">>, images |-> <<>>, metadata |-> TitleMeta],
      [tables |-> <<>>, images |-> <<"image_000">>, formulas |-> <<>>],
      [formulas |-> <<"$x$">>, metadata |-> NoneObj],
      [tables |-> <<"table_000">>, images |-> <<"image_000">>,
       formulas |-> <<"$x$">>, metadata |-> TitleMeta],
      [images |-> None, metadata |-> TitleMeta] }

\* processed documents: the text a str, null, not a str, or absent
Docs ==
    { [text |-> t] @@ shape : t \in Texts \cup { None, NonStr }, shape \in DocShapes }
    \cup DocShapes

\* standard input of generate_chunks.py: not JSON, a JSON array, or a JSON
\* object holding a processed document
StdinValues ==
    { [kind |-> "malformed", value |-> NoDoc], [kind |-> "array", value |-> NoDoc] }
    \cup { [kind |-> "object", value |-> d] : d \in Docs }


NoConfig == [name |-> "None", a |-> 0, b |-> 0]

GenIdle ==
    /\ doc = NoDoc /\ doc_after = NoDoc
    /\ config = NoConfig /\ strategy = NoStrategy /\ call = "none" /\ out = NoOut
CliIdle ==
    /\ prog = "None" /\ argv = <<>> /\ stdin = [kind |-> "none", value |-> NoDoc]
    /\ pc = "idle" /\ processor = NoProcessor /\ result = NoOut /\ raised = None
    /\ stdout = <<>> /\ stderr = <<>> /\ exit_code = -1
KwIdle == kw_text = <<>> /\ kw_out = None
NoFile == [kind |-> "None"]
NoLoop ==
    [page_num |-> 0, text_parts |-> <<>>, ocr_page_count |-> 0, ocr_calls |-> <<>>,
     failed |-> FALSE]
ProcIdle ==
    /\ proc = "None" /\ file = NoFile /\ ppc = "idle" /\ res = NoDoc /\ perr = None
    /\ handles = <<>> /\ loop = NoLoop

-----------------------------------------------------------------------------
(* extract_document.py: main                                               *)

\* if len(sys.argv) < 2: print the envelope and exit(1)
ExtractNoArgs ==
    /\ prog = "extract_document" /\ pc = "start"
    /\ Len(argv) < 1
    /\ stdout' = Append(stdout, ErrorEnvelope(<<"No file path provided">>))
    /\ exit_code' = 1
    /\ pc' = "exited"
    /\ UNCHANGED <<prog, argv, stdin, processor, result, raised, stderr>>

\* processor = get_processor(file_path, original_name)
ExtractRoute ==
    /\ prog = "extract_document" /\ pc = "start"
    /\ Len(argv) >= 1
    /\ LET file_path == argv[1]
           original_name == IF Len(argv) > 1 THEN argv[2] ELSE None
           r == get_processor(file_path, original_name)
       IN  /\ processor' = r.processor
           /\ raised' = r.raised
           /\ pc' = IF r.raised = None THEN "process" ELSE "except"
    /\ UNCHANGED <<prog, argv, stdin, result, stdout, stderr, exit_code>>

\* result = processor.process(file_path)
ExtractProcess ==
    /\ prog = "extract_document" /\ pc = "process"
    /\ \E o \in ProcessOutcomes :
          /\ result' = o
          /\ raised' = o.raised
          /\ pc' = IF o.raised = None THEN "print" ELSE "except"
    /\ UNCHANGED <<prog, argv, stdin, processor, stdout, stderr, exit_code>>

\* print(json.dumps(result, ensure_ascii=False)), then main returns
ExtractPrint ==
    /\ prog = "extract_document" /\ pc = "print"
    /\ IF result.serialisable
       THEN /\ stdout' = Append(stdout, JsonDumpsObject(result.document))
            /\ exit_code' = 0
            /\ pc' = "exited"
            /\ UNCHANGED raised
       ELSE /\ raised' = <<"TypeError: Object is not JSON serializable">>
            /\ pc' = "except"
            /\ UNCHANGED <<stdout, exit_code>>
    /\ UNCHANGED <<prog, argv, stdin, processor, result, stderr>>

\* variant of ExtractExcept that prints the envelope and returns normally
ExtractExceptWithoutExit ==
    /\ prog = "extract_document" /\ pc = "except"
    /\ stdout' = Append(stdout, ErrorEnvelope(raised))
    /\ exit_code' = 0
    /\ pc' = "exited"
    /\ UNCHANGED <<prog, argv, stdin, processor, result, raised, stderr>>

\* except Exception as e: print the envelope on stdout, sys.exit(1)
ExtractExcept ==
    /\ prog = "extract_document" /\ pc = "except"
    /\ stdout' = Append(stdout, ErrorEnvelope(raised))
    /\ exit_code' = 1
    /\ pc' = "exited"
    /\ UNCHANGED <<prog, argv, stdin, processor, result, raised, stderr>>

-----------------------------------------------------------------------------
(* generate_chunks.py: main                                                *)

\* the keyword arguments main() gives RAGGenerator
CliMinChunkSize == 200
CliMaxChunkSize == 500

\* processed_doc = json.loads(sys.stdin.read())
GenerateParse ==
    /\ prog = "generate_chunks" /\ pc = "start"
    /\ IF stdin.kind = "malformed"
       THEN /\ raised' = <<"JSONDecodeError: Expecting value">>
            /\ pc' = "except"
       ELSE /\ raised' = None
            /\ pc' = "generate"
    /\ UNCHANGED <<prog, argv, stdin, processor, result, stdout, stderr, exit_code>>

\* generator = RAGGenerator('semantic', ...); chunks = generator.generate_chunks(doc)
GenerateRun ==
    /\ prog = "generate_chunks" /\ pc = "generate"
    /\ LET g == get_chunking_strategy("semantic", CliMinChunkSize, CliMaxChunkSize)
           r == IF stdin.kind # "object"
                THEN [raised |-> <<"AttributeError: 'list' object has no attribute 'get'">>,
                      chunks |-> <<>>, chunk_calls |-> 0]
                ELSE GenerateChunks(g.chunker, stdin.value)
       IN  /\ result' = r
           /\ raised' = r.raised
           /\ pc' = IF r.raised = None THEN "print" ELSE "except"
    /\ UNCHANGED <<prog, argv, stdin, processor, stdout, stderr, exit_code>>

\* print(json.dumps(chunks, ensure_ascii=False)), then main returns
GeneratePrint ==
    /\ prog = "generate_chunks" /\ pc = "print"
    /\ stdout' = Append(stdout, JsonDumpsArray(result.chunks))
    /\ exit_code' = 0
    /\ pc' = "exited"
    /\ UNCHANGED <<prog, argv, stdin, processor, result, raised, stderr>>

\* except Exception as e: print the envelope on stderr, sys.exit(1)
GenerateExcept ==
    /\ prog = "generate_chunks" /\ pc = "except"
    /\ stderr' = Append(stderr, ErrorEnvelope(raised))
    /\ exit_code' = 1
    /\ pc' = "exited"
    /\ UNCHANGED <<prog, argv, stdin, processor, result, raised, stdout>>

-----------------------------------------------------------------------------
(* The two entry points                                                    *)

Init ==
    /\ prog \in {"extract_document", "generate_chunks"}
    /\ IF prog = "extract_document"
       THEN argv \in ArgvValues /\ stdin = [kind |-> "none", value |-> NoDoc]
       ELSE argv = <<>> /\ stdin \in StdinValues
    /\ pc = "start"
    /\ processor = NoProcessor
    /\ result = NoOut
    /\ raised = None
    /\ stdout = <<>>
    /\ stderr = <<>>
    /\ exit_code = -1
    /\ GenIdle
    /\ KwIdle
    /\ ProcIdle

Next ==
    \/ (ExtractNoArgs /\ UNCHANGED genVars /\ UNCHANGED kwVars /\ UNCHANGED procVars)
    \/ (ExtractRoute /\ UNCHANGED genVars /\ UNCHANGED kwVars /\ UNCHANGED procVars)
    \/ (ExtractProcess /\ UNCHANGED genVars /\ UNCHANGED kwVars /\ UNCHANGED procVars)
    \/ (ExtractPrint /\ UNCHANGED genVars /\ UNCHANGED kwVars /\ UNCHANGED procVars)
    \/ (ExtractExcept /\ UNCHANGED genVars /\ UNCHANGED kwVars /\ UNCHANGED procVars)
    \/ (GenerateParse /\ UNCHANGED genVars /\ UNCHANGED kwVars /\ UNCHANGED procVars)
    \/ (GenerateRun /\ UNCHANGED genVars /\ UNCHANGED kwVars /\ UNCHANGED procVars)
    \/ (GeneratePrint /\ UNCHANGED genVars /\ UNCHANGED kwVars /\ UNCHANGED procVars)
    \/ (GenerateExcept /\ UNCHANGED genVars /\ UNCHANGED kwVars /\ UNCHANGED procVars)

Spec == Init /\ [][Next]_vars

-----------------------------------------------------------------------------
(* The chunking library called directly: RAGGenerator(name, **kwargs),     *)
(* then strategy.chunk(text, metadata) or generator.generate_chunks(doc)   *)

\* sizes and overlaps range over 1..MaxSize and 0..MaxSize; the word
\* window of FixedSizeChunking is also tried at MaxWindow words with every
\* overlap
MaxSize == 2
MaxWindow == 3
StrategyNames == {"fixed", "semantic", "sentence", "paragraph", "Fixed", ""}

\* the two keyword arguments by position: (chunk_size, overlap),
\* (min_chunk_size, max_chunk_size), (sentences_per_chunk, overlap_sentences)
Configs ==
    { [name |-> n, a |-> a, b |-> b] :
        n \in {"fixed", "semantic", "sentence"}, a \in 1..MaxSize, b \in 0..MaxSize }
    \cup { [name |-> n, a |-> 1, b |-> 0] : n \in StrategyNames \ {"fixed", "semantic", "sentence"} }
    \cup { [name |-> "fixed", a |-> MaxWindow, b |-> b] : b \in 0..MaxWindow }

InitGen ==
    /\ doc \in Docs
    /\ doc_after = doc
    /\ config \in Configs
    /\ strategy = NoStrategy
    /\ call = "none"
    /\ out = NoOut
    /\ CliIdle
    /\ KwIdle
    /\ ProcIdle

\* RAGGenerator.__init__: self.chunker = get_chunking_strategy(name, **kwargs)
Construct ==
    /\ call = "none"
    /\ LET g == get_chunking_strategy(config.name, config.a, config.b)
       IN  /\ strategy' = g.chunker
           /\ out' = [out EXCEPT !.raised = g.raised]
           /\ call' = IF g.raised = None THEN "constructed" ELSE "init_failed"
    /\ UNCHANGED <<doc, doc_after, config>>

\* strategy.chunk(text, metadata) on a str, metadata defaulting to None
CallChunk ==
    /\ call = "constructed"
    /\ "text" \in DOMAIN doc /\ doc.text \notin {None, NonStr}
    /\ LET r == Chunk(strategy, doc.text, Get(doc, "metadata", NoneObj))
       IN  out' = [raised |-> r.raised, chunks |-> r.chunks, chunk_calls |-> 1]
    /\ call' = "chunk"
    /\ UNCHANGED <<doc, doc_after, config, strategy>>

\* generator.generate_chunks(processed_doc)
CallGenerateChunks ==
    /\ call = "constructed"
    /\ out' = GenerateChunks(strategy, doc)
    /\ doc_after' = DocumentAfter(strategy, doc)
    /\ call' = "generate_chunks"
    /\ UNCHANGED <<doc, config, strategy>>

NextGen ==
    \/ (Construct /\ UNCHANGED cliVars /\ UNCHANGED kwVars /\ UNCHANGED procVars)
    \/ (CallChunk /\ UNCHANGED cliVars /\ UNCHANGED kwVars /\ UNCHANGED procVars)
    \/ (CallGenerateChunks /\ UNCHANGED cliVars /\ UNCHANGED kwVars /\ UNCHANGED procVars)

SpecGen == InitGen /\ [][NextGen]_vars

-----------------------------------------------------------------------------
(* RAGGenerator._extract_keywords called on longer texts                   *)

\* tokens: stopwords and short tokens in several spellings, then the 27
\* three-letter words over a, b, c
SpecialTokens ==
    << <<"t","h","e">>, <<"T","h","e">>, <<"a","n">>, <<"a","b">>, <<"A","N","D">>,
       <<"A","b","c">>, <<"w","i","t","h">>, <<"a","b","c","a">>, <<"U+C774">> >>

Abc == <<"a", "b", "c">>
Token(j) ==
    IF j < Len(SpecialTokens) THEN SpecialTokens[j + 1]
    ELSE LET k == j - Len(SpecialTokens)
         IN  << Abc[(k \div 9) + 1], Abc[((k \div 3) % 3) + 1], Abc[(k % 3) + 1] >>

TokenCount == Len(SpecialTokens) + 27

\* texts of at most MaxTokens tokens: token i is Token((start + i*stride) % modulus)
MaxTokens == 30
Moduli == {4, 13, TokenCount}
KeywordTexts ==
    { Join([i \in 1..m |-> Token((start + i * stride) % modulus)], <<" ">>) :
        m \in 0..MaxTokens, start \in {0, 7}, stride \in {1, 2}, modulus \in Moduli }

InitKeywords ==
    /\ kw_text \in KeywordTexts
    /\ kw_out = None
    /\ CliIdle
    /\ GenIdle
    /\ ProcIdle

\* keywords = self._extract_keywords(text)
CallExtractKeywords ==
    /\ kw_out = None
    /\ kw_out' = ExtractKeywords(kw_text)
    /\ UNCHANGED kw_text

NextKeywords ==
    \/ (CallExtractKeywords /\ UNCHANGED cliVars /\ UNCHANGED genVars /\ UNCHANGED procVars)

SpecKeywords == InitKeywords /\ [][NextKeywords]_vars

-----------------------------------------------------------------------------
(* Format routing: the extension table of the design                        *)

\* the lookup table as the design states it, written out independently of
\* the if/elif chain
ExtensionTable ==
    { << <<".", "p", "d", "f">>, "PDFProcessor" >>,
      << <<".", "d", "o", "c", "x">>, "DOCXProcessor" >>,
      << <<".", "d", "o", "c">>, "DOCXProcessor" >>,
      << <<".", "x", "l", "s", "x">>, "ExcelProcessor" >>,
      << <<".", "x", "l", "s">>, "ExcelProcessor" >>,
      << <<".", "c", "s", "v">>, "ExcelProcessor" >>,
      << <<".", "p", "p", "t", "x">>, "PPTXProcessor" >>,
      << <<".", "p", "p", "t">>, "PPTXProcessor" >>,
      << <<".", "t", "x", "t">>, "TextProcessor" >>,
      << <<".", "m", "d">>, "TextProcessor" >>,
      << <<".", "r", "s", "t">>, "TextProcessor" >> }

InTable(ext) == \E row \in ExtensionTable : row[1] = ext
TableProcessor(ext) ==
    IF InTable(ext) THEN (CHOOSE row \in ExtensionTable : row[1] = ext)[2]
    ELSE Unsupported

\* the lower-cased extension of a file name
ExtOf(name) == Lower(PathSuffix(name))

\* get_processor has returned or raised in this run of extract_document
Routed == prog = "extract_document" /\ pc \in {"process", "print", "except", "exited"}
              /\ Len(argv) >= 1

\* C1 as stated: whenever an original name is passed (even the empty
\* string), the extractor is the table's entry for the original name's
\* lower-cased extension, and otherwise the entry for the path's.
C1_AnyProvidedNameDecides ==
    Routed =>
        processor = TableProcessor(ExtOf(IF Len(argv) > 1 THEN argv[2] ELSE argv[1]))

\* C1 amended: whenever a non-empty original name is passed, the extractor
\* is the table's entry for the original name's lower-cased extension,
\* whatever the path's extension; with no original name, or an empty one,
\* it is the entry for the path's lower-cased extension.
C1_NonEmptyOriginalNameDecides ==
    Routed =>
        processor = TableProcessor(ExtOf(IF Len(argv) > 1 /\ argv[2] # <<>>
                                         THEN argv[2] ELSE argv[1]))

\* a run routed by an upper-case original name whose extractor differs
\* from the one the path's supported extension would select
C1_Witness ==
    /\ Routed /\ Len(argv) > 1
    /\ argv[1] = UploadDir \o <<"a", ".", "p", "d", "f">>
    /\ argv[2] = <<"a", ".", "C", "S", "V">>
    /\ processor = "ExcelProcessor"

C3_ResultOrEnvelope ==
    pc = "exited" =>
        LET printed == stdout \o stderr
        IN  /\ Len(printed) = 1
            /\ exit_code \in {0, 1}
            /\ (exit_code = 0) = ~IsErrorEnvelope(printed[1])
            /\ (exit_code = 0) = (raised = None /\ (prog = "extract_document" => argv # <<>>))
            /\ (exit_code = 0 => stderr = <<>>)
            /\ (IsErrorEnvelope(printed[1]) /\ raised # None =>
                    printed[1].value.error = raised)

\* generate_chunks.py ended with the envelope after enrichment raised
C3_Witness ==
    /\ prog = "generate_chunks" /\ pc = "exited"
    /\ raised = <<"TypeError: object of type 'NoneType' has no len()">>
    /\ exit_code = 1 /\ stdout = <<>> /\ IsErrorEnvelope(stderr[1])

-----------------------------------------------------------------------------
(* Chunking and enrichment                                                 *)

\* the document's text is a str
TextIsStr == "text" \in DOMAIN doc /\ doc.text \notin {None, NonStr}

\* a call of strategy.chunk or generate_chunks on a str has returned
Returned == call \in {"chunk", "generate_chunks"} /\ out.raised = None /\ TextIsStr

ValidFixed == strategy.class = "FixedSizeChunking" /\ strategy.overlap < strategy.chunk_size
ValidSentence ==
    strategy.class = "SentenceChunking"
    /\ strategy.overlap_sentences < strategy.sentences_per_chunk

RECURSIVE Concat(_)
Concat(seqs) == IF seqs = <<>> THEN <<>> ELSE Head(seqs) \o Concat(Tail(seqs))

ChunkTexts == [i \in 1..Len(out.chunks) |-> out.chunks[i].text]

\* C4: for FixedSize(n, k) with 0 <= k < n the call does not raise, and the
\* first n-k words of each chunk, concatenated in chunk order, are exactly
\* the whitespace-separated words of the source text.
C4_FixedPrefixesRebuildWords ==
    (call \in {"chunk", "generate_chunks"} /\ TextIsStr /\ ValidFixed
        /\ (call = "chunk" \/ out.raised = None)) =>
        /\ out.raised = None
        /\ Concat([i \in 1..Len(out.chunks) |->
                      Prefix(SplitWhitespace(out.chunks[i].text),
                             strategy.chunk_size - strategy.overlap)])
             = SplitWhitespace(doc.text)

\* two overlapping windows: the second chunk starts with the first's last word
C4_Witness ==
    /\ call = "chunk" /\ ValidFixed /\ strategy.overlap = 1
    /\ Len(out.chunks) = 2
    /\ out.chunks[1].word_count = 2
    /\ out.chunks[1].text # out.chunks[2].text \o <<" ">> \o out.chunks[2].text

\* C5: for each strategy (FixedSize with overlap < chunk_size, Semantic,
\* Sentence with overlap_sentences < sentences_per_chunk) the chunk at
\* position i of the returned list has chunk_index i, counting from 0.
C5_ChunkIndexIsPosition ==
    (Returned /\ (ValidFixed \/ ValidSentence \/ strategy.class = "SemanticChunking")) =>
        \A i \in 1..Len(out.chunks) : out.chunks[i].chunk_index = i - 1

\* generate_chunks returned three chunks
C5_Witness ==
    /\ call = "generate_chunks" /\ Returned
    /\ Len(out.chunks) = 3
    /\ out.chunks[3].chunk_index = 2

\* C6: every chunk a strategy emits, and every chunk generate_chunks
\* returns after enrichment, has char_count = len(text) and word_count =
\* the number of whitespace-separated tokens of text.
C6_CountsMatchText ==
    (call \in {"chunk", "generate_chunks"} /\ out.raised = None) =>
        \A i \in 1..Len(out.chunks) :
            /\ out.chunks[i].char_count = Len(out.chunks[i].text)
            /\ out.chunks[i].word_count = Len(SplitWhitespace(out.chunks[i].text))

\* an enriched semantic chunk made of two paragraphs
C6_Witness ==
    /\ call = "generate_chunks" /\ strategy.class = "SemanticChunking"
    /\ Len(out.chunks) = 1
    /\ "keywords" \in DOMAIN out.chunks[1]
    /\ out.chunks[1].text = <<"a">> \o ParagraphSep \o <<"a">>
    /\ out.chunks[1].char_count = 4 /\ out.chunks[1].word_count = 2

\* C7 as stated: joining the chunk texts of SemanticChunking with the
\* blank-line separator gives back the source text.
C7_JoinedChunksEqualSource ==
    (Returned /\ strategy.class = "SemanticChunking") =>
        Join(ChunkTexts, ParagraphSep) = doc.text

\* the blank-line-separated pieces of the text, each stripped of
\* surrounding whitespace, the empty ones left out
RECURSIVE StrippedParagraphs(_)
StrippedParagraphs(pieces) ==
    IF pieces = <<>> THEN <<>>
    ELSE IF Strip(Head(pieces)) = <<>> THEN StrippedParagraphs(Tail(pieces))
    ELSE <<Strip(Head(pieces))>> \o StrippedParagraphs(Tail(pieces))

\* C7 amended: joining the chunk texts with the blank-line separator gives
\* the source's paragraphs, each stripped of surrounding whitespace and
\* the empty ones dropped, joined by single blank lines; this equals the
\* source text when no paragraph of the source is empty or has
\* surrounding whitespace.
C7_JoinedChunksEqualStrippedParagraphs ==
    (Returned /\ strategy.class = "SemanticChunking") =>
        LET pieces == SplitParagraphs(doc.text)
        IN  /\ Join(ChunkTexts, ParagraphSep)
                 = Join(StrippedParagraphs(pieces), ParagraphSep)
            /\ (\A k \in 1..Len(pieces) : pieces[k] # <<>> /\ Strip(pieces[k]) = pieces[k])
                   => Join(ChunkTexts, ParagraphSep) = doc.text

\* two chunks whose join differs from the source by dropped whitespace
C7_Witness ==
    /\ Returned /\ strategy.class = "SemanticChunking"
    /\ Len(out.chunks) = 2
    /\ Join(ChunkTexts, ParagraphSep) # doc.text

\* C8: generate_chunks on a document whose text is absent, empty or null
\* returns the empty list, raises nothing and never calls the chunking
\* strategy, whatever the strategy and the other fields are.
C8_EmptyTextYieldsNoChunks ==
    (call = "generate_chunks"
        /\ ("text" \notin DOMAIN doc \/ doc.text = <<>> \/ doc.text = None)) =>
        /\ out.raised = None
        /\ out.chunks = <<>>
        /\ out.chunk_calls = 0

\* an empty text with a null collection and a strategy whose stride is zero
C8_Witness ==
    /\ call = "generate_chunks"
    /\ "text" \in DOMAIN doc /\ doc.text = <<>>
    /\ Get(doc, "images", <<>>) = None
    /\ strategy.class = "FixedSizeChunking" /\ strategy.overlap = strategy.chunk_size
    /\ out.chunks = <<>> /\ out.raised = None

\* C9: the keyword list has at most 20 entries, none of them a stopword
\* or of length <= 2.
C9_KeywordsBounded ==
    kw_out # None =>
        /\ Len(kw_out) <= 20
        /\ \A k \in 1..Len(kw_out) : kw_out[k] \notin Stopwords /\ Len(kw_out[k]) > 2

\* a text with stopwords, short tokens and more than 20 distinct keywords
C9_Witness ==
    /\ kw_out # None /\ Len(kw_out) = 20
    /\ LET words == SplitWhitespace(Lower(kw_text))
       IN  /\ Cardinality({words[i] : i \in {j \in 1..Len(words) :
                               Len(words[j]) > 2 /\ words[j] \notin Stopwords}}) > 20
           /\ \E i \in 1..Len(words) : words[i] \in Stopwords
           /\ \E i \in 1..Len(words) : Len(words[i]) <= 2

\* the document has at least one entry in the collection
NonEmptyCollection(key) == key \in DOMAIN doc /\ doc[key] # <<>>

\* C10: every chunk generate_chunks returns has has_tables, has_images and
\* has_formulas equal to whether the document's tables, images and
\* formulas collection has an entry (a missing collection has none), the
\* same for all chunks.
C10_FlagsFromDocument ==
    (call = "generate_chunks" /\ out.raised = None) =>
        \A i \in 1..Len(out.chunks) :
            /\ out.chunks[i].has_tables = NonEmptyCollection("tables")
            /\ out.chunks[i].has_images = NonEmptyCollection("images")
            /\ out.chunks[i].has_formulas = NonEmptyCollection("formulas")

\* two chunks of a document with images and an empty table list
C10_Witness ==
    /\ call = "generate_chunks" /\ out.raised = None
    /\ Len(out.chunks) >= 2
    /\ "tables" \in DOMAIN doc /\ doc.tables = <<>> /\ NonEmptyCollection("images")
    /\ out.chunks[2].has_images /\ ~out.chunks[2].has_tables

\* ---------------------------------------------------------------------------
\* The extractors: BaseProcessor.process(file_path) of each processor class
\* ---------------------------------------------------------------------------

\* result = {'text': '', 'tables': [], 'images': [], 'formulas': [], 'metadata': {}}
EmptyDict == [k \in {} |-> None]
NewResult ==
    [text |-> <<>>, tables |-> <<>>, images |-> <<>>, formulas |-> <<>>,
     metadata |-> EmptyDict]

Digits == <<"0", "1", "2", "3", "4", "5", "6", "7", "8", "9">>
Digit(d) == Digits[d + 1]

\* f'{k:03d}' (for k < 1000)
ZeroPad3(k) == <<Digit((k \div 100) % 10), Digit((k \div 10) % 10), Digit(k % 10)>>

\* f'table_{index:03d}'
TableId(index) == <<"t", "a", "b", "l", "e", "_">> \o ZeroPad3(index)

EndsWith(s, suffix) ==
    /\ Len(s) >= Len(suffix)
    /\ SubSeq(s, Len(s) - Len(suffix) + 1, Len(s)) = suffix

StartsWith(s, prefix) ==
    /\ Len(s) >= Len(prefix)
    /\ SubSeq(s, 1, Len(prefix)) = prefix

\* s.split(ch) for a one-character separator
RECURSIVE SplitOn(_, _)
SplitOn(s, ch) ==
    LET hits == {i \in 1..Len(s) : s[i] = ch}
    IN  IF hits = {} THEN <<s>>
        ELSE LET i == CHOOSE h \in hits : \A g \in hits : h <= g
             IN  <<SubSeq(s, 1, i - 1)>> \o SplitOn(SubSeq(s, i + 1, Len(s)), ch)

\* ---- ExcelProcessor ----
\* A DataFrame is the sequence of the cells of its one column "c".

\* ExcelProcessor._dataframe_to_table(df, sheet_name, index)
DataframeToTable(df, sheet_name, index) ==
    [id |-> TableId(index), sheet_name |-> sheet_name, data |-> df,
     shape |-> <<Len(df), 1>>, columns |-> << <<"c">> >>]

\* df.to_string(): a header line, then one line per row that starts with the
\* row's index; an empty frame renders as its "Empty DataFrame" notice
DfLines(df) ==
    IF df = <<>> THEN << <<"E", "m", "p", "t", "y">> >>
    ELSE << <<" ", " ", " ", "c">> >>
         \o [i \in 1..Len(df) |-> <<Digit(i - 1), " ", " ">> \o df[i]]

DfToString(df) == Join(DfLines(df), <<"\n">>)

\* variant of DictSet that puts a new key in front of the older keys
DictSetFront(d, key, value) ==
    IF \E i \in 1..Len(d) : d[i][1] = key
    THEN [i \in 1..Len(d) |-> IF d[i][1] = key THEN <<key, value>> ELSE d[i]]
    ELSE << <<key, value>> >> \o d

\* all_dfs[sheet_name] = df on a dict (a sequence of key/value pairs in
\* insertion order): a known key keeps its place, a new key goes last
DictSet(d, key, value) ==
    IF \E i \in 1..Len(d) : d[i][1] = key
    THEN [i \in 1..Len(d) |-> IF d[i][1] = key THEN <<key, value>> ELSE d[i]]
    ELSE Append(d, <<key, value>>)

\* f"=== {sheet_name} ===\n{df.to_string()}"
Banner(sheet_name) == <<"=", "=", "=", " ">> \o sheet_name \o <<" ", "=", "=", "=">>
SheetText(sheet_name, df) == Banner(sheet_name) \o <<"\n">> \o DfToString(df)

\* for sheet_name in excel_file.sheet_names: ... (the loop's two accumulators)
RECURSIVE SheetLoop(_, _, _)
SheetLoop(sheets, tables, all_dfs) ==
    IF sheets = <<>> THEN [tables |-> tables, all_dfs |-> all_dfs]
    ELSE LET sheet == Head(sheets)
         IN  SheetLoop(Tail(sheets),
                       Append(tables, DataframeToTable(sheet.df, sheet.name, Len(tables))),
                       DictSet(all_dfs, sheet.name, sheet.df))

\* ExcelProcessor.process(file_path), given what pandas reads from the file;
\* read_csv and read_excel close what they open, the pd.ExcelFile of line 43
\* is opened and no line closes it; pd.ExcelFile refuses a file whose
\* content is CSV text
ExcelResult(f) ==
    IF ~f.readable THEN [raised |-> <<"Exception: pandas">>, result |-> NoDoc, handles |-> <<>>]
    ELSE IF EndsWith(Lower(f.path), <<".", "c", "s", "v">>)
    THEN LET df == f.sheets[1].df
         IN  [raised |-> None,
              result |-> [NewResult EXCEPT
                  !.tables = <<DataframeToTable(df, <<"S", "h", "e", "e", "t", "1">>, 0)>>,
                  !.text = DfToString(df),
                  !.metadata = [file_type |-> "csv", shape |-> <<Len(df), 1>>,
                                columns |-> << <<"c">> >>]],
              handles |-> <<>>]
    ELSE IF f.format = "csv"
    THEN [raised |-> <<"ValueError: Excel file format cannot be determined">>,
          result |-> NoDoc, handles |-> <<>>]
    ELSE LET l == SheetLoop(f.sheets, <<>>, <<>>)
             text_parts == [i \in 1..Len(l.all_dfs) |->
                               SheetText(l.all_dfs[i][1], l.all_dfs[i][2])]
         IN  [raised |-> None,
              result |-> [NewResult EXCEPT
                  !.tables = l.tables,
                  !.text = Join(text_parts, <<"\n", "\n">>),
                  !.metadata = [file_type |-> "xlsx/xls",
                                sheet_names |-> [i \in 1..Len(f.sheets) |-> f.sheets[i].name],
                                total_sheets |-> Len(f.sheets)]],
              handles |-> << [what |-> "pd.ExcelFile", open |-> TRUE] >>]

\* ---- the files handed to ExcelProcessor ----
MaxSheets == 3
SheetNames == {<<"A">>, <<"B">>, <<"C">>, <<"D">>}
CellValues == {<<"x">>, Banner(<<"A">>)}
DataFrames == {<<>>} \cup {<<c>> : c \in CellValues}
Sheets == [name : SheetNames, df : DataFrames]

\* the sheet names of one workbook are distinct
DistinctNames(w) == \A i, j \in 1..Len(w) : i < j => w[i].name # w[j].name
RECURSIVE WorkbooksOf(_)
WorkbooksOf(n) ==
    IF n = 0 THEN {<<>>}
    ELSE LET shorter == WorkbooksOf(n - 1)
             longer == {Append(w, sh) : w \in {v \in shorter : Len(v) = n - 1}, sh \in Sheets}
         IN  shorter \cup {w \in longer : DistinctNames(w)}

XlsxPath == <<"b", ".", "x", "l", "s", "x">>
CsvPaths == {<<"b", ".", "c", "s", "v">>, <<"b", ".", "C", "S", "V">>}
\* the name an upload is stored under: no extension of its own
TempPath == UploadDir \o <<"u">>

\* a file is its path, the original name main passed to get_processor
\* (None when argv had none), the format of its content and what pandas
\* reads from it; an upload stored under TempPath keeps the content its
\* original name announces
ExcelFiles ==
    {[kind |-> "excel", path |-> XlsxPath, original_name |-> None, format |-> "workbook",
      readable |-> r, sheets |-> w] :
        r \in BOOLEAN, w \in WorkbooksOf(MaxSheets)}
    \cup
    {[kind |-> "excel", path |-> p, original_name |-> None, format |-> "csv",
      readable |-> r, sheets |-> <<[name |-> <<>>, df |-> d]>>] :
        p \in CsvPaths, r \in BOOLEAN, d \in DataFrames}
    \cup
    {[kind |-> "excel", path |-> TempPath, original_name |-> XlsxPath, format |-> "workbook",
      readable |-> r, sheets |-> w] :
        r \in BOOLEAN, w \in WorkbooksOf(1)}
    \cup
    {[kind |-> "excel", path |-> TempPath, original_name |-> n, format |-> "csv",
      readable |-> r, sheets |-> <<[name |-> <<>>, df |-> d]>>] :
        n \in CsvPaths, r \in BOOLEAN, d \in DataFrames}

\* ---- TextProcessor ----
\* The content of a text file is a sequence of lines joined by "\n", with or
\* without a "\n" after the last one.
Content(lines, final_newline) ==
    Join(lines, <<"\n">>) \o (IF final_newline /\ lines # <<>> THEN <<"\n">> ELSE <<>>)

\* the separator class [\s\-|:] of table_pattern
SeparatorClass == {" ", "\t", "\n", "\r", "-", "|", ":"}
ClassOnly(line) == \A i \in 1..Len(line) : line[i] \in SeparatorClass
Pipes(line) == Cardinality({i \in 1..Len(line) : line[i] = "|"})

\* \|.*\|.* : a line that starts with a pipe and holds a second one
IsRow(line) == Len(line) >= 1 /\ line[1] = "|" /\ Pipes(line) >= 2

\* the line is followed by "\n" in the content
Terminated(lines, final_newline, i) == i < Len(lines) \/ final_newline

\* \|[\s\-|:]*\|[\s\-|:]*\n : the class holds "\n", so the greedy separator
\* part runs over every following line made of class characters only
RECURSIVE SeparatorEnd(_, _, _)
SeparatorEnd(lines, final_newline, m) ==
    IF m <= Len(lines) /\ Terminated(lines, final_newline, m) /\ ClassOnly(lines[m])
    THEN SeparatorEnd(lines, final_newline, m + 1)
    ELSE m

\* (?:\|.*\|.*\n)* : the rows that follow
RECURSIVE RowsEnd(_, _, _)
RowsEnd(lines, final_newline, e) ==
    IF e <= Len(lines) /\ Terminated(lines, final_newline, e) /\ IsRow(lines[e])
    THEN RowsEnd(lines, final_newline, e + 1)
    ELSE e

RECURSIVE SumPipes(_)
SumPipes(ls) == IF ls = <<>> THEN 0 ELSE Pipes(Head(ls)) + SumPipes(Tail(ls))

\* the line after the last line of the match of table_pattern that starts at
\* line i (re.MULTILINE: a match starts at a line start), 0 if none starts there
MatchEnd(lines, final_newline, i) ==
    IF /\ Terminated(lines, final_newline, i) /\ IsRow(lines[i])
       /\ i + 1 <= Len(lines) /\ Len(lines[i + 1]) >= 1 /\ lines[i + 1][1] = "|"
    THEN LET m == SeparatorEnd(lines, final_newline, i + 1)
         IN  IF m > i + 1 /\ SumPipes(SubSeq(lines, i + 1, m - 1)) >= 2
             THEN RowsEnd(lines, final_newline, m)
             ELSE 0
    ELSE 0

\* [cell.strip() for cell in line.split('|')[1:-1]]
Cells(line) ==
    LET parts == SplitOn(line, "|")
    IN  [k \in 1..(Len(parts) - 2) |-> Strip(parts[k + 1])]

\* data_rows of one match: the non-blank lines of lines[2:]
RECURSIVE DataRows(_)
DataRows(ls) ==
    IF ls = <<>> THEN <<>>
    ELSE IF Strip(Head(ls)) # <<>> THEN <<Cells(Head(ls))>> \o DataRows(Tail(ls))
    ELSE DataRows(Tail(ls))

\* 'id': f'table_{table_idx:03d}', table_idx counting the matches of enumerate(matches)
MarkdownTableId(table_idx, tables) == TableId(table_idx)

\* the body of "for table_idx, match in enumerate(matches)": tables after one match
MarkdownTable(table_text, table_idx, tables) ==
    LET ls == SplitOn(Strip(table_text), "\n")
        headers == Cells(ls[1])
        data_rows == DataRows(SubSeq(ls, 3, Len(ls)))
    IN  IF Len(ls) < 2 THEN tables
        ELSE IF data_rows # <<>>
        THEN Append(tables, [id |-> MarkdownTableId(table_idx, tables), format |-> "markdown",
                             headers |-> headers, data |-> data_rows,
                             shape |-> <<Len(data_rows), Len(headers)>>])
        ELSE tables

\* re.finditer over the content, from line i on, table_idx matches found before
RECURSIVE MarkdownLoop(_, _, _, _, _)
MarkdownLoop(lines, final_newline, i, table_idx, tables) ==
    IF i > Len(lines) THEN tables
    ELSE LET e == MatchEnd(lines, final_newline, i)
         IN  IF e = 0 THEN MarkdownLoop(lines, final_newline, i + 1, table_idx, tables)
             ELSE MarkdownLoop(lines, final_newline, e, table_idx + 1,
                               MarkdownTable(Content(SubSeq(lines, i, e - 1), TRUE),
                                             table_idx, tables))

\* TextProcessor._extract_markdown_tables(content)
ExtractMarkdownTables(lines, final_newline) ==
    MarkdownLoop(lines, final_newline, 1, 0, <<>>)

\* TextProcessor._extract_rst_tables(content): table_pattern needs a line that
\* starts with "+", which no modelled content holds
ExtractRstTables(lines, final_newline) == <<>>

\* TextProcessor._extract_latex_formulas(content): every pattern needs a "$"
\* or a backslash, which no modelled content holds
ExtractLatexFormulas(content) == <<>>

\* os.path.splitext(file_path)[1].lower(), for names that do not end in a dot
FileExt(file_path) == Lower(PathSuffix(file_path))

\* TextProcessor._extract_metadata(file_path, content); no modelled content
\* holds a heading or front matter
TextMetadata(file_path, content) ==
    LET file_ext == FileExt(file_path)
        base == [file_size |-> Len(content), file_name |-> PathName(file_path),
                 file_type |-> Tail_(file_ext, 2),
                 lines |-> Len(SplitOn(content, "\n")),
                 characters |-> Len(content),
                 words |-> Len(SplitWhitespace(content))]
    IN  IF file_ext \in {<<".", "m", "d">>, <<".", "r", "s", "t">>}
        THEN [k \in DOMAIN base \cup {"headings"} |->
                 IF k = "headings" THEN <<>> ELSE base[k]]
        ELSE base

\* TextProcessor.process(file_path): what it raises or returns, and the file
\* handle of its "with open(...)" block
TextResult(f) ==
    LET content == Content(f.lines, f.final_newline)
        file_ext == FileExt(f.path)
        closed == << [what |-> "open", open |-> FALSE] >>
        tables == IF file_ext = <<".", "m", "d">>
                  THEN ExtractMarkdownTables(f.lines, f.final_newline)
                  ELSE IF file_ext = <<".", "r", "s", "t">>
                  THEN ExtractRstTables(f.lines, f.final_newline)
                  ELSE <<>>
        formulas == IF file_ext \in {<<".", "m", "d">>, <<".", "r", "s", "t">>}
                    THEN ExtractLatexFormulas(content) ELSE <<>>
    IN  IF f.readable = "open_fails"
        THEN [raised |-> <<"FileNotFoundError">>, result |-> NoDoc, handles |-> <<>>]
        ELSE IF f.readable = "read_fails"
        THEN [raised |-> <<"UnicodeDecodeError">>, result |-> NoDoc, handles |-> closed]
        ELSE IF ~f.size_ok
        THEN [raised |-> <<"OSError: getsize">>, result |-> NoDoc, handles |-> closed]
        ELSE [raised |-> None,
              result |-> [NewResult EXCEPT !.text = content, !.tables = tables,
                                           !.formulas = formulas,
                                           !.metadata = TextMetadata(f.path, content)],
              handles |-> closed]

\* ---- the files handed to TextProcessor ----
MaxLines == 6
HeaderLine == <<"|", " ", "a", " ", "|">>
SeparatorLine == <<"|", "-", "|">>
MdLines == {HeaderLine, SeparatorLine, <<"x">>, <<>>}
RECURSIVE LinesOf(_)
LinesOf(n) ==
    IF n = 0 THEN {<<>>}
    ELSE LET shorter == LinesOf(n - 1)
         IN  shorter \cup {Append(ls, l) : ls \in {v \in shorter : Len(v) = n - 1}, l \in MdLines}
MdPath == <<"n", ".", "m", "d">>
TextPaths == {MdPath, <<"n", ".", "M", "D">>, <<"n", ".", "t", "x", "t">>, <<"n", ".", "r", "s", "t">>}
\* a file is its path, the original name main passed to get_processor
\* (None when argv had none) and its content; an upload is stored under
\* TempPath or under a name with another extension
TextFiles ==
    {[kind |-> "text", path |-> MdPath, original_name |-> None,
      readable |-> "ok", size_ok |-> TRUE,
      lines |-> ls, final_newline |-> nl] : ls \in LinesOf(MaxLines), nl \in BOOLEAN}
    \cup
    {[kind |-> "text", path |-> p, original_name |-> None, readable |-> r, size_ok |-> s,
      lines |-> ls, final_newline |-> TRUE] :
        p \in TextPaths, r \in {"ok", "open_fails", "read_fails"}, s \in BOOLEAN,
        ls \in LinesOf(1)}
    \cup
    {[kind |-> "text", path |-> p, original_name |-> n, readable |-> "ok", size_ok |-> TRUE,
      lines |-> ls, final_newline |-> TRUE] :
        p \in {TempPath, <<"n", ".", "t", "x", "t">>}, n \in TextPaths,
        ls \in LinesOf(MaxLines \div 2)}

\* TextProcessor().process(file_path)
TextProcess ==
    /\ proc = "TextProcessor" /\ ppc = "start"
    /\ LET r == TextResult(file)
       IN  /\ perr' = r.raised
           /\ res' = r.result
           /\ handles' = r.handles
           /\ ppc' = IF r.raised = None THEN "returned" ELSE "raised"
    /\ UNCHANGED <<proc, file, loop>>

\* ---- PDFProcessor ----
\* d1.update(d2) on dicts held as records
Update(d1, d2) ==
    [k \in DOMAIN d1 \cup DOMAIN d2 |-> IF k \in DOMAIN d2 THEN d2[k] ELSE d1[k]]

\* str(n) for a natural number
RECURSIVE DecimalStr(_)
DecimalStr(n) ==
    IF n < 10 THEN <<Digit(n)>> ELSE DecimalStr(n \div 10) \o <<Digit(n % 10)>>

\* f"--- Page {page_num + 1} ---\n{text}"
PageMarker(page_num) ==
    <<"-", "-", "-", " ", "P", "a", "g", "e", " ">> \o DecimalStr(page_num + 1)
        \o <<" ", "-", "-", "-">>
PagePart(page_num, text) == PageMarker(page_num) \o <<"\n">> \o text

\* the page counts as scanned below this many stripped characters
OcrThreshold == 50

\* variant of NeedsOcr that measures the native text without stripping it
NeedsOcrUnstripped(text, ocr_available) ==
    Len(text) < OcrThreshold /\ ocr_available

\* if len(text.strip()) < 50 and OCR_AVAILABLE
NeedsOcr(text, ocr_available) ==
    Len(Strip(text)) < OcrThreshold /\ ocr_available

\* what tesseract reads from the rendered page
OcrRead == <<" ", "o", "c", "r", "\n">>
OcrBlank == <<" ", "\n">>

\* PDFProcessor._extract_text_with_ocr(file_path, page_num), called with
\* OCR_AVAILABLE true: the stripped reading, "" when rendering or reading raises
ExtractTextWithOcr(page) ==
    CASE page.ocr = "text" -> Strip(OcrRead)
      [] page.ocr = "blank" -> Strip(OcrBlank)
      [] page.ocr = "fail" -> <<>>

\* variant of OcrPageText that takes whatever the OCR call returned
OcrPageTextAlwaysReplaced(text, ocr_text) == ocr_text

\* if ocr_text: text = ocr_text
OcrPageText(text, ocr_text) == IF ocr_text # <<>> THEN ocr_text ELSE text

\* try: text_data = self._extract_text_and_formulas(file_path), up to
\* doc = fitz.open(file_path); the RuntimeError of a missing or failing engine
\* is caught and logged by process()
PdfOpen ==
    /\ proc = "PDFProcessor" /\ ppc = "start"
    /\ res' = NewResult
    /\ IF file.engine = "ok"
       THEN /\ handles' = Append(handles, [what |-> "fitz.open: text", open |-> TRUE])
            /\ ppc' = "pages"
            /\ loop' = NoLoop
       ELSE /\ handles' = handles
            /\ ppc' = "metadata"
            /\ loop' = [NoLoop EXCEPT !.failed = TRUE]
    /\ UNCHANGED <<proc, file, perr>>

\* one pass of "for page_num in range(total_pages)"; an exception of
\* page.get_text() leaves the loop, is logged, becomes the RuntimeError of
\* line 106 and is caught and logged by process()
PdfPage ==
    /\ proc = "PDFProcessor" /\ ppc = "pages"
    /\ loop.page_num < Len(file.pages)
    /\ LET page_num == loop.page_num
           page == file.pages[page_num + 1]
           call_ocr == NeedsOcr(page.native, file.ocr_available)
           ocr_text == IF call_ocr THEN ExtractTextWithOcr(page) ELSE <<>>
           text == IF call_ocr THEN OcrPageText(page.native, ocr_text) ELSE page.native
       IN  IF file.fails_at = page_num + 1
           THEN /\ loop' = [loop EXCEPT !.failed = TRUE]
                /\ ppc' = "metadata"
           ELSE /\ loop' = [loop EXCEPT
                       !.page_num = page_num + 1,
                       !.text_parts = Append(@, PagePart(page_num, text)),
                       !.ocr_page_count = IF call_ocr /\ ocr_text # <<>> THEN @ + 1 ELSE @,
                       !.ocr_calls = IF call_ocr THEN Append(@, page_num) ELSE @]
                /\ ppc' = "pages"
    /\ UNCHANGED <<proc, file, res, perr, handles>>

\* doc.close() ... return result, and the lines of process() that copy the
\* text, the formulas and the OCR figures into its result
PdfJoin ==
    /\ proc = "PDFProcessor" /\ ppc = "pages"
    /\ loop.page_num = Len(file.pages)
    /\ handles' = [i \in 1..Len(handles) |->
                      IF i = Len(handles) THEN [handles[i] EXCEPT !.open = FALSE]
                      ELSE handles[i]]
    /\ res' = [res EXCEPT !.text = Join(loop.text_parts, <<"\n">>),
                          !.formulas = <<>>,
                          !.metadata = [ocr_used |-> loop.ocr_page_count > 0,
                                        ocr_pages |-> loop.ocr_page_count]]
    /\ ppc' = "metadata"
    /\ UNCHANGED <<proc, file, perr, loop>>

PdfPath == <<"f", ".", "p", "d", "f">>

\* try: metadata = self._extract_metadata(file_path);
\* result['metadata'].update(metadata) ... return result
PdfMetadata ==
    /\ proc = "PDFProcessor" /\ ppc = "metadata"
    /\ LET base == [file_size |-> 1, file_name |-> PathName(PdfPath)]
           props == [total_pages |-> Len(file.pages), metadata |-> EmptyDict,
                     is_encrypted |-> FALSE]
           opened == Append(handles, [what |-> "fitz.open: metadata", open |-> TRUE])
           closed == Append(handles, [what |-> "fitz.open: metadata", open |-> FALSE])
       IN  IF file.meta = "size_fails"
           THEN res' = res /\ handles' = handles
           ELSE IF file.engine = "missing" \/ file.engine = "broken"
           THEN res' = [res EXCEPT !.metadata = Update(@, base)] /\ handles' = handles
           ELSE IF file.meta = "props_fail"
           THEN res' = [res EXCEPT !.metadata = Update(@, base)] /\ handles' = opened
           ELSE /\ res' = [res EXCEPT !.metadata = Update(@, Update(base, props))]
                /\ handles' = closed
    /\ ppc' = "returned"
    /\ UNCHANGED <<proc, file, perr, loop>>

\* ---- the files handed to PDFProcessor ----
MaxPages == 2
Xs(n) == [i \in 1..n |-> "x"]
NativeTexts == {<<>>, <<" ">> \o Xs(OcrThreshold - 1) \o <<"\n">>, Xs(OcrThreshold)}
Pages == [native : NativeTexts, ocr : {"text", "blank", "fail"}]
RECURSIVE PagesOf(_)
PagesOf(n) ==
    IF n = 0 THEN {<<>>}
    ELSE LET shorter == PagesOf(n - 1)
         IN  shorter \cup {Append(ps, p) : ps \in {v \in shorter : Len(v) = n - 1}, p \in Pages}
PdfFiles ==
    {[kind |-> "pdf", engine |-> "ok", ocr_available |-> o, pages |-> ps,
      fails_at |-> k, meta |-> "ok"] :
        o \in BOOLEAN, ps \in PagesOf(MaxPages), k \in 0..MaxPages}
    \cup
    {[kind |-> "pdf", engine |-> e, ocr_available |-> TRUE, pages |-> ps,
      fails_at |-> 0, meta |-> m] :
        e \in {"missing", "broken", "ok"}, ps \in PagesOf(1),
        m \in {"ok", "size_fails", "props_fail"}}

\* ---- DOCXProcessor ----
\* A document body is a sequence of elements in body order: paragraphs
\* [tag |-> "p", text, style] and tables [tag |-> "tbl", rows]; f.fails names
\* the one step that raises for this file, "none" if none does.

\* '#' * level
Hashes(level) == [i \in 1..level |-> "#"]

\* DOCXProcessor._extract_text(doc); a heading style is "Heading" and a level
RECURSIVE DocxTextParts(_)
DocxTextParts(body) ==
    IF body = <<>> THEN <<>>
    ELSE LET element == Head(body)
             text == Strip(element.text)
         IN  (IF element.tag = "tbl" THEN << <<"[", "T", "A", "B", "L", "E", "]">> >>
              ELSE IF text = <<>> THEN <<>>
              ELSE IF element.style > 0 THEN <<Hashes(element.style) \o <<" ">> \o text>>
              ELSE <<text>>)
             \o DocxTextParts(Tail(body))

\* DOCXProcessor._extract_tables(doc)
DocxTables(body) ==
    LET tables == SelectSeq(body, LAMBDA element : element.tag = "tbl")
    IN  [i \in 1..Len(tables) |->
            [id |-> TableId(i - 1), data |-> tables[i].rows,
             shape |-> <<Len(tables[i].rows), 1>>]]

\* DOCXProcessor._extract_metadata(doc, file_path), once os.path.getsize succeeded
DocxMetadata(f) ==
    LET metadata ==
            [file_size |-> 1, file_name |-> PathName(f.path),
             total_paragraphs |-> Len(SelectSeq(f.body, LAMBDA element : element.tag = "p")),
             total_tables |-> Len(SelectSeq(f.body, LAMBDA element : element.tag = "tbl"))]
    IN  IF f.fails = "props" THEN metadata
        ELSE Update(metadata, [title |-> <<"t">>])

\* DOCXProcessor.process(file_path)
DocxResult(f) ==
    IF f.fails = "import"
    THEN [raised |-> <<"RuntimeError: python-docx not installed">>, result |-> NoDoc]
    ELSE IF f.fails \in {"open", "text", "tables", "size"}
    THEN [raised |-> <<"Exception: ", f.fails>>, result |-> NoDoc]
    ELSE [raised |-> None,
          result |-> [NewResult EXCEPT
              !.text = Join(DocxTextParts(f.body), <<"\n", "\n">>),
              !.tables = DocxTables(f.body),
              !.metadata = DocxMetadata(f)]]

\* ---- PPTXProcessor ----
\* A presentation is a sequence of slides, a slide a sequence of shapes: text
\* shapes [kind |-> "text", text] of one paragraph at outline level 0 and
\* tables [kind |-> "table", rows].

\* the lines of one slide in PPTXProcessor._extract_text
RECURSIVE ShapeLines(_)
ShapeLines(shapes) ==
    IF shapes = <<>> THEN <<>>
    ELSE LET shape == Head(shapes)
         IN  (IF shape.kind = "text" /\ Strip(shape.text) # <<>>
              THEN << <<"-", " ">> \o Strip(shape.text) >>
              ELSE <<>>)
             \o ShapeLines(Tail(shapes))

\* PPTXProcessor._extract_text(prs), from slide number slide_num on
RECURSIVE PptxTextParts(_, _)
PptxTextParts(slides, slide_num) ==
    IF slides = <<>> THEN <<>>
    ELSE << <<"#", " ", "S", "l", "i", "d", "e", " ">> \o DecimalStr(slide_num) >>
         \o ShapeLines(Head(slides)) \o << <<>> >>
         \o PptxTextParts(Tail(slides), slide_num + 1)

\* PPTXProcessor._extract_tables(prs), from slide number slide_num on
RECURSIVE PptxTables(_, _, _)
PptxTables(slides, slide_num, tables) ==
    IF slides = <<>> THEN tables
    ELSE LET found == SelectSeq(Head(slides), LAMBDA shape : shape.kind = "table")
             new == [i \in 1..Len(found) |->
                        [id |-> TableId(Len(tables) + i - 1), slide |-> slide_num,
                         data |-> found[i].rows, shape |-> <<Len(found[i].rows), 1>>]]
         IN  PptxTables(Tail(slides), slide_num + 1, tables \o new)

\* PPTXProcessor.process(file_path)
PptxResult(f) ==
    LET metadata == [file_size |-> 1, file_name |-> PathName(f.path),
                     total_slides |-> Len(f.slides)]
    IN  IF f.fails = "import"
        THEN [raised |-> <<"RuntimeError: python-pptx not installed">>, result |-> NoDoc]
        ELSE IF f.fails \in {"open", "text", "tables", "size"}
        THEN [raised |-> <<"Exception: ", f.fails>>, result |-> NoDoc]
        ELSE [raised |-> None,
              result |-> [NewResult EXCEPT
                  !.text = Join(PptxTextParts(f.slides, 1), <<"\n">>),
                  !.tables = PptxTables(f.slides, 1, <<>>),
                  !.metadata = IF f.fails = "props" THEN metadata
                               ELSE Update(metadata, [title |-> <<"t">>])]]

\* ---- the files handed to DOCXProcessor and PPTXProcessor ----
FailurePoints == {"none", "import", "open", "text", "tables", "size", "props"}
DocxTable == [tag |-> "tbl", text |-> <<>>, style |-> 0, rows |-> << << <<"c">> >> >>]
DocxBodies ==
    {<<>>,
     << [tag |-> "p", text |-> <<" ", "a">>, style |-> 0, rows |-> <<>>] >>,
     << [tag |-> "p", text |-> <<"h">>, style |-> 2, rows |-> <<>>], DocxTable,
        [tag |-> "p", text |-> <<" ">>, style |-> 0, rows |-> <<>>], DocxTable >>}
DocxFiles ==
    {[kind |-> "docx", path |-> <<"d", ".", "d", "o", "c", "x">>, fails |-> x, body |-> b] :
        x \in FailurePoints, b \in DocxBodies}
PptxTable == [kind |-> "table", text |-> <<>>, rows |-> << << <<"c">> >> >>]
PptxText == [kind |-> "text", text |-> <<"a", " ">>, rows |-> <<>>]
PptxDecks == {<<>>, << <<PptxText>> >>, << <<PptxTable, PptxText>>, <<>>, <<PptxTable>> >>}
PptxFiles ==
    {[kind |-> "pptx", path |-> <<"s", ".", "p", "p", "t", "x">>, fails |-> x, slides |-> d] :
        x \in FailurePoints, d \in PptxDecks}

\* DOCXProcessor().process(file_path)
DocxProcess ==
    /\ proc = "DOCXProcessor" /\ ppc = "start"
    /\ LET r == DocxResult(file)
       IN  /\ perr' = r.raised
           /\ res' = r.result
           /\ ppc' = IF r.raised = None THEN "returned" ELSE "raised"
    /\ UNCHANGED <<proc, file, handles, loop>>

\* PPTXProcessor().process(file_path)
PptxProcess ==
    /\ proc = "PPTXProcessor" /\ ppc = "start"
    /\ LET r == PptxResult(file)
       IN  /\ perr' = r.raised
           /\ res' = r.result
           /\ ppc' = IF r.raised = None THEN "returned" ELSE "raised"
    /\ UNCHANGED <<proc, file, handles, loop>>

\* ExcelProcessor().process(file_path)
ExcelProcess ==
    /\ proc = "ExcelProcessor" /\ ppc = "start"
    /\ LET r == ExcelResult(file)
       IN  /\ perr' = r.raised
           /\ res' = r.result
           /\ handles' = r.handles
           /\ ppc' = IF r.raised = None THEN "returned" ELSE "raised"
    /\ UNCHANGED <<proc, file, loop>>

\* main (extract_document.py:18-19): the processor that gets a file is the
\* one get_processor returns for its path and original name
RoutedTo(processor_name, files) ==
    {f \in files : get_processor(f.path, f.original_name).processor = processor_name}

InitProcess ==
    /\ CliIdle /\ GenIdle /\ KwIdle
    /\ \/ proc = "ExcelProcessor" /\ file \in RoutedTo("ExcelProcessor", ExcelFiles)
       \/ proc = "TextProcessor" /\ file \in RoutedTo("TextProcessor", TextFiles)
       \/ proc = "PDFProcessor" /\ file \in PdfFiles
       \/ proc = "DOCXProcessor" /\ file \in DocxFiles
       \/ proc = "PPTXProcessor" /\ file \in PptxFiles
    /\ ppc = "start" /\ res = NoDoc /\ perr = None
    /\ handles = <<>> /\ loop = NoLoop

NextProcess ==
    \/ (ExcelProcess /\ UNCHANGED cliVars /\ UNCHANGED genVars /\ UNCHANGED kwVars)
    \/ (TextProcess /\ UNCHANGED cliVars /\ UNCHANGED genVars /\ UNCHANGED kwVars)
    \/ (DocxProcess /\ UNCHANGED cliVars /\ UNCHANGED genVars /\ UNCHANGED kwVars)
    \/ (PptxProcess /\ UNCHANGED cliVars /\ UNCHANGED genVars /\ UNCHANGED kwVars)
    \/ (PdfOpen /\ UNCHANGED cliVars /\ UNCHANGED genVars /\ UNCHANGED kwVars)
    \/ (PdfPage /\ UNCHANGED cliVars /\ UNCHANGED genVars /\ UNCHANGED kwVars)
    \/ (PdfJoin /\ UNCHANGED cliVars /\ UNCHANGED genVars /\ UNCHANGED kwVars)
    \/ (PdfMetadata /\ UNCHANGED cliVars /\ UNCHANGED genVars /\ UNCHANGED kwVars)

SpecProcess == InitProcess /\ [][NextProcess]_vars

\* ---- C11 ----
\* a banner is a line of the text of the form "=== name ==="
IsBanner(line) ==
    /\ Len(line) >= 8
    /\ StartsWith(line, <<"=", "=", "=", " ">>)
    /\ EndsWith(line, <<" ", "=", "=", "=">>)
BannerLines(text) == SelectSeq(SplitOn(text, "\n"), IsBanner)
WorkbookReturned ==
    /\ proc = "ExcelProcessor" /\ ppc = "returned"
    /\ ~EndsWith(Lower(file.path), <<".", "c", "s", "v">>)

\* C11: for a workbook whose sheets are s1..sn in declared order, process()
\* returns n tables whose sheet_name sequence is s1..sn, and the banner lines
\* of the text are exactly "=== s1 ===" .. "=== sn ===" in that order.
C11_TablesAndBannersInSheetOrder ==
    WorkbookReturned =>
        /\ Len(res.tables) = Len(file.sheets)
        /\ \A i \in 1..Len(file.sheets) : res.tables[i].sheet_name = file.sheets[i].name
        /\ BannerLines(res.text) = [i \in 1..Len(file.sheets) |-> Banner(file.sheets[i].name)]

\* three sheets out of name order, one of them holding a cell that looks like a banner
C11_Witness ==
    /\ WorkbookReturned
    /\ Len(file.sheets) = 3
    /\ file.sheets[1].name = <<"C">> /\ file.sheets[2].name = <<"A">>
    /\ file.sheets[2].df = <<Banner(<<"A">>)>>

\* ---- C12 ----
MarkdownReturned ==
    proc = "TextProcessor" /\ ppc = "returned" /\ FileExt(file.path) = <<".", "m", "d">>

\* C12: for Markdown input a pipe-table match with zero data rows is discarded,
\* and the table at position k of the returned collection has id
\* table_{k:03d} (k counted from 0), also when an earlier match was discarded.
C12_SequentialIdsNoEmptyTable ==
    MarkdownReturned =>
        \A k \in 1..Len(res.tables) :
            /\ res.tables[k].data # <<>>
            /\ res.tables[k].id = TableId(k - 1)

\* ---- C13 ----
\* the pages the loop has passed, and those OCR was called for
PagesDone == IF proc = "PDFProcessor" THEN 1..loop.page_num ELSE {}
OcrCalled(i) == \E c \in 1..Len(loop.ocr_calls) : loop.ocr_calls[c] = i - 1
ShortPage(i) == Len(Strip(file.pages[i].native)) < 50
OcrReturnsText(i) == file.pages[i].ocr = "text"
OcrOutcome(called_when(_)) ==
    /\ \A i \in PagesDone :
          /\ OcrCalled(i) <=> called_when(i)
          /\ (OcrCalled(i) /\ OcrReturnsText(i)) =>
                 loop.text_parts[i] = PagePart(i - 1, <<"o", "c", "r">>)
          /\ ~ShortPage(i) => loop.text_parts[i] = PagePart(i - 1, file.pages[i].native)
    /\ loop.ocr_page_count =
          Cardinality({i \in PagesDone : OcrCalled(i) /\ OcrReturnsText(i)})
    /\ (proc = "PDFProcessor" /\ ppc = "returned" /\ ~loop.failed) =>
          res.metadata.ocr_pages = loop.ocr_page_count
CalledWhenShort(i) == ShortPage(i)
CalledWhenShortAndAvailable(i) == ShortPage(i) /\ file.ocr_available

\* C13 as stated: per page, OCR is called if and only if the stripped native
\* text has fewer than 50 characters; a called OCR that returns text replaces
\* the page's text and the page is counted in ocr_pages; pages at or above
\* the threshold keep their native text and are never counted.
C13_OcrIffShort == OcrOutcome(CalledWhenShort)

\* C13 amended: per page, OCR is called if and only if the stripped native
\* text has fewer than 50 characters and the OCR libraries are importable;
\* the rest as stated.
C13_OcrIffShortAndAvailable == OcrOutcome(CalledWhenShortAndAvailable)

\* a page of 49 stripped (51 raw) characters read by OCR, then a page of 50 kept
C13_Witness ==
    /\ proc = "PDFProcessor" /\ ppc = "returned" /\ ~loop.failed
    /\ Len(file.pages) = 2
    /\ Len(file.pages[1].native) = 51 /\ ShortPage(1) /\ OcrReturnsText(1)
    /\ Len(file.pages[2].native) = 50
    /\ loop.ocr_calls = <<0>>
    /\ res.metadata.ocr_pages = 1

\* ---- C14 ----
OcrFailed(i) == OcrCalled(i) /\ file.pages[i].ocr = "fail"
ExpectedPageText(i) ==
    IF ShortPage(i) /\ file.ocr_available /\ OcrReturnsText(i)
    THEN <<"o", "c", "r">> ELSE file.pages[i].native
PagesContinue ==
    /\ \A i \in PagesDone : ~OcrFailed(i) => loop.text_parts[i] = PagePart(i - 1, ExpectedPageText(i))
    /\ \A i \in PagesDone : StartsWith(loop.text_parts[i], PageMarker(i - 1))
    /\ proc = "PDFProcessor" => Len(loop.text_parts) = loop.page_num
    /\ (proc = "PDFProcessor" /\ ppc = "returned" /\ file.engine = "ok"
            /\ file.fails_at \notin 1..Len(file.pages)) =>
          /\ loop.page_num = Len(file.pages)
          /\ res.text = Join(loop.text_parts, <<"\n">>)

\* C14 as stated: when the OCR call for a low-text page fails, that page's
\* text in the output is empty, every other page's text is unaffected, and
\* extraction continues through all remaining pages, one marker per page in
\* page order.
C14_FailedOcrPageIsEmpty ==
    /\ PagesContinue
    /\ \A i \in PagesDone : OcrFailed(i) => loop.text_parts[i] = PagePart(i - 1, <<>>)

\* C14 amended: when the OCR call for a low-text page fails, that page keeps
\* its native text (fewer than 50 stripped characters, possibly none) and is
\* not counted; every other page's text is unaffected, and extraction
\* continues through all remaining pages, one marker per page in page order.
C14_FailedOcrPageKeepsNative ==
    /\ PagesContinue
    /\ \A i \in PagesDone :
          OcrFailed(i) => loop.text_parts[i] = PagePart(i - 1, file.pages[i].native)
    /\ loop.ocr_page_count <= Cardinality({i \in PagesDone : ~OcrFailed(i)})

\* OCR fails on a first page that has some native text, and reads the second
C14_Witness ==
    /\ proc = "PDFProcessor" /\ ppc = "returned"
    /\ Len(file.pages) = 2
    /\ OcrFailed(1) /\ file.pages[1].native # <<>>
    /\ OcrCalled(2) /\ OcrReturnsText(2)
    /\ Len(loop.text_parts) = 2

\* ---- C15 ----
ProcessEnded == proc # "None" /\ ppc \in {"returned", "raised"}

\* the primary text-extraction path of the file fails: the parser is missing,
\* the file does not open or decode, or reading its text raises
PrimaryFails ==
    CASE file.kind = "pdf" -> file.engine # "ok" \/ file.fails_at \in 1..Len(file.pages)
      [] file.kind = "text" -> file.readable # "ok"
      [] file.kind = "excel" -> ~file.readable
      [] file.kind \in {"docx", "pptx"} -> file.fails \in {"import", "open", "text"}
      [] OTHER -> FALSE

\* C15: for every extractor, failure of the primary text-extraction path is
\* fatal: process() raises and returns no Document; in particular
\* PDFProcessor.process() raises when no parsing engine is available or the
\* engine fails on the file, instead of returning a Document with empty text.
C15_PrimaryFailureIsFatal ==
    (ProcessEnded /\ PrimaryFails) => (ppc = "raised" /\ perr # None)

\* ---- C16 ----
\* a secondary sub-extraction (tables, metadata) of the file fails
SecondaryFails ==
    CASE file.kind = "pdf" -> file.meta # "ok"
      [] file.kind = "text" -> ~file.size_ok
      [] file.kind \in {"docx", "pptx"} -> file.fails \in {"tables", "size", "props"}
      [] OTHER -> FALSE

\* C16: for every extractor, when text extraction succeeds and a secondary
\* sub-extraction fails, process() still returns a Document with the
\* extracted text; a secondary failure never aborts process().
C16_SecondaryFailureIsNotFatal ==
    (ProcessEnded /\ ~PrimaryFails /\ SecondaryFails) =>
        (ppc = "returned" /\ perr = None /\ "tables" \in DOMAIN res)

\* ---- C17 ----
\* C17: every document or file handle opened during process() is closed by
\* the time process() returns or raises, on every exit path.
C17_HandlesClosedAtExit ==
    ProcessEnded => \A h \in 1..Len(handles) : ~handles[h].open

\* ---- C18 ----
StrategyClassOf(name) ==
    CASE name = "fixed" -> "FixedSizeChunking"
      [] name = "semantic" -> "SemanticChunking"
      [] name = "sentence" -> "SentenceChunking"
      [] OTHER -> "None"

\* C18: strategy selection accepts exactly the names 'fixed', 'semantic' and
\* 'sentence', each yielding its own strategy; any other name fails with the
\* configuration error when the generator is constructed, so no chunk or
\* generate_chunks call ever runs with an unknown strategy.
C18_UnknownStrategyFailsAtConstruction ==
    call # "none" =>
        IF config.name \in {"fixed", "semantic", "sentence"}
        THEN /\ call # "init_failed"
             /\ strategy.class = StrategyClassOf(config.name)
        ELSE /\ call = "init_failed"
             /\ strategy = NoStrategy
             /\ out.raised = <<"ValueError: Unknown chunking strategy: ", config.name>>
             /\ out.chunks = <<>> /\ out.chunk_calls = 0

\* a name that differs from a known one only by case is refused
C18_Witness ==
    call = "init_failed" /\ config.name = "Fixed" /\ out.raised # None

\* ---- C19 ----
\* a chunking call that returned, on a document whose metadata is a mapping
ChunkedWithMapping ==
    /\ call \in {"chunk", "generate_chunks"} /\ out.raised = None
    /\ "metadata" \in DOMAIN doc /\ doc.metadata.id = <<"doc", 0>>

\* C19 as stated: for every strategy and every caller-supplied mapping, an
\* empty one included, the metadata of every emitted chunk is the caller's
\* mapping itself, one and the same object for all chunks of the call.
C19_ChunksShareCallersMapping ==
    ChunkedWithMapping =>
        \A k \in 1..Len(out.chunks) : out.chunks[k].metadata.id = doc.metadata.id

\* C19 amended: for every strategy, a non-empty caller-supplied mapping is the
\* metadata of every emitted chunk, shared by reference; for an empty mapping
\* every chunk gets a new empty mapping of its own, none of them the caller's.
C19_ChunksShareNonEmptyMapping ==
    ChunkedWithMapping =>
        IF doc.metadata.items # {}
        THEN \A k \in 1..Len(out.chunks) : out.chunks[k].metadata = doc.metadata
        ELSE \A k \in 1..Len(out.chunks) :
                /\ out.chunks[k].metadata.items = {}
                /\ out.chunks[k].metadata.id # doc.metadata.id
                /\ \A j \in 1..Len(out.chunks) :
                      j # k => out.chunks[j].metadata.id # out.chunks[k].metadata.id

\* two chunks of one generate_chunks call that hold the caller's non-empty mapping
C19_Witness ==
    /\ ChunkedWithMapping /\ call = "generate_chunks"
    /\ doc.metadata.items # {}
    /\ Len(out.chunks) >= 2
    /\ out.chunks[1].metadata.id = <<"doc", 0>> /\ out.chunks[2].metadata.id = <<"doc", 0>>

\* ---- C20 ----
\* how often a token occurs in the tokens of the text and where it occurs first
Frequency(tokens, w) == Cardinality({i \in 1..Len(tokens) : tokens[i] = w})
FirstOccurrence(tokens, w) ==
    CHOOSE i \in 1..Len(tokens) : tokens[i] = w /\ \A j \in 1..(i - 1) : tokens[j] # w
\* u goes before w: more frequent, or as frequent and first seen earlier
GoesBefore(tokens, u, w) ==
    \/ Frequency(tokens, u) > Frequency(tokens, w)
    \/ /\ Frequency(tokens, u) = Frequency(tokens, w)
       /\ FirstOccurrence(tokens, u) < FirstOccurrence(tokens, w)
KeywordsOf(tokens) ==
    {tokens[i] : i \in {j \in 1..Len(tokens) :
                            Len(tokens[j]) > 2 /\ tokens[j] \notin Stopwords}}

\* C20: the keyword list is ordered by non-increasing frequency of the token
\* in the text, tokens of equal frequency in the order of their first
\* occurrence, and the keywords kept are the first 20 of that order.
C20_KeywordsByFrequencyThenFirstOccurrence ==
    kw_out # None =>
        LET tokens == SplitWhitespace(Lower(kw_text))
        IN  /\ \A k \in 1..Len(kw_out) : kw_out[k] \in KeywordsOf(tokens)
            /\ \A k \in 1..(Len(kw_out) - 1) : GoesBefore(tokens, kw_out[k], kw_out[k + 1])
            /\ \A w \in KeywordsOf(tokens) :
                  (\A k \in 1..Len(kw_out) : kw_out[k] # w) =>
                      /\ Len(kw_out) = 20
                      /\ GoesBefore(tokens, kw_out[20], w)

\* more than 20 distinct keywords, some equally frequent and some not
C20_Witness ==
    /\ kw_out # None /\ Len(kw_out) = 20
    /\ LET tokens == SplitWhitespace(Lower(kw_text))
       IN  /\ Cardinality(KeywordsOf(tokens)) > 20
           /\ \E k \in 1..19 : Frequency(tokens, kw_out[k]) = Frequency(tokens, kw_out[k + 1])
           /\ \E k \in 1..19 : Frequency(tokens, kw_out[k]) > Frequency(tokens, kw_out[k + 1])
           /\ \E w \in KeywordsOf(tokens) :
                 /\ \A k \in 1..20 : kw_out[k] # w
                 /\ Frequency(tokens, w) = Frequency(tokens, kw_out[20])

(* Claims on the chunking strategies' windows and limits                   *)

\* the number of paragraphs a semantic chunk was joined from: its
\* paragraphs are stripped and non-empty, so none holds a blank line
ParagraphsIn(chunk) == Len(SplitParagraphs(chunk.text))

\* C21: in SemanticChunking every chunk made of two or more paragraphs
\* has char_count <= max_chunk_size; only a single-paragraph chunk may
\* exceed the limit.
C21_MultiParagraphChunkWithinMax ==
    (Returned /\ strategy.class = "SemanticChunking") =>
        \A k \in 1..Len(out.chunks) :
            ParagraphsIn(out.chunks[k]) >= 2
                => out.chunks[k].char_count <= strategy.max_chunk_size

\* what the call that was made returns for the same document with
\* another chunker
OutputWith(chunker) ==
    IF call = "chunk"
    THEN Chunk(chunker, doc.text, Get(doc, "metadata", NoneObj)).chunks
    ELSE GenerateChunks(chunker, doc).chunks

\* the values of min_chunk_size compared with the configured one: 0, below
\* which no chunk is, and one above every configured size
MinSizes == {0, MaxSize + 1}

\* C22: SemanticChunking's output does not depend on min_chunk_size: for
\* the same text and max_chunk_size every min_chunk_size gives the same
\* chunk sequence, so a chunk shorter than min_chunk_size is emitted as it
\* is with no lower bound at all.
C22_OutputIndependentOfMinChunkSize ==
    (Returned /\ strategy.class = "SemanticChunking") =>
        \A m \in MinSizes :
            OutputWith(SemanticChunking(m, strategy.max_chunk_size)) = out.chunks

\* a returned chunk shorter than min_chunk_size
C22_Witness ==
    /\ Returned /\ strategy.class = "SemanticChunking"
    /\ \E k \in 1..Len(out.chunks) :
           out.chunks[k].char_count < strategy.min_chunk_size

\* the sentences at the 0-based positions first .. first + s - 1 of the
\* split text, fewer where the text ends
SentencesAt(sentences, first, s) ==
    LET last == IF first + s < Len(sentences) THEN first + s ELSE Len(sentences)
    IN  [p \in 1..(last - first) |-> sentences[first + p]]

\* C23: SentenceChunking(s, o) with o < s windows the sentences as
\* FixedSize windows words: chunk j holds the sentences at positions
\* j*(s-o) .. j*(s-o)+s-1 of the split text (fewer at the end), its
\* sentence_count is the number of sentences it holds and lies between 1
\* and s, and every sentence of the source is in at least one chunk, in
\* source order.
C23_SentenceWindows ==
    (Returned /\ ValidSentence /\ out.chunk_calls = 1) =>
        LET sentences == SplitSentences(doc.text)
            s == strategy.sentences_per_chunk
            step == s - strategy.overlap_sentences
            count == (Len(sentences) + step - 1) \div step
        IN  /\ Len(out.chunks) = count
            /\ \A j \in 0..(count - 1) :
                   LET held == SentencesAt(sentences, j * step, s)
                   IN  /\ out.chunks[j + 1].text = Join(held, <<" ">>)
                       /\ out.chunks[j + 1].sentence_count = Len(held)
                       /\ Len(held) >= 1 /\ Len(held) <= s
            /\ \A p \in 1..Len(sentences) :
                   \E j \in 0..(count - 1) : j * step < p /\ p <= j * step + s

\* three sentences in overlapping windows of two: the last window holds
\* one sentence only
C23_Witness ==
    /\ Returned /\ ValidSentence /\ out.chunk_calls = 1
    /\ strategy.sentences_per_chunk = 2 /\ strategy.overlap_sentences = 1
    /\ Len(out.chunks) = 3
    /\ out.chunks[1].sentence_count = 2
    /\ out.chunks[3].sentence_count = 1

\* FixedSizeChunking was asked for with overlap >= chunk_size
OverlapNotBelowSize == config.name = "fixed" /\ config.b >= config.a

RangeStepZero == <<"ValueError: range() arg 3 must not be zero">>

\* C24: FixedSizeChunking accepts overlap >= chunk_size at construction
\* without validation, and chunk() on such a configuration ends for every
\* text, with an error or with a returned list: the zero stride of
\* overlap = chunk_size is refused by range() before the first window, the
\* negative stride of overlap > chunk_size gives no window at all.
C24_InvalidOverlapAcceptedAndChunkEnds ==
    (OverlapNotBelowSize /\ call # "none") =>
        /\ call # "init_failed"
        /\ strategy = FixedSizeChunking(config.a, config.b)
        /\ (call = "chunk") =>
               /\ out.chunks = <<>>
               /\ out.raised = IF config.b = config.a THEN RangeStepZero ELSE None
        /\ (call = "generate_chunks") => (out.raised # None \/ out.chunks = <<>>)

\* overlap > chunk_size on a text with words: chunk() returns no chunk
C24_Witness ==
    /\ OverlapNotBelowSize /\ config.b > config.a
    /\ call = "chunk" /\ out.raised = None /\ out.chunks = <<>>
    /\ Len(SplitWhitespace(doc.text)) >= 2

\* C25 as stated: for FixedSizeChunking(n, k) with 0 <= k < n only the
\* final window may be shorter: every chunk except the last has
\* word_count = n.
C25_OnlyLastWindowShorter ==
    (Returned /\ ValidFixed /\ out.chunk_calls = 1) =>
        \A j \in 1..(Len(out.chunks) - 1) :
            out.chunks[j].word_count = strategy.chunk_size

\* C25 amended: chunk j (from 0) has word_count = min(n, len(words) -
\* j*(n-k)), so every window that starts at least n words before the end
\* of the text is full and the shorter ones are the trailing windows; with
\* k <= 1 only the last chunk can be shorter, with k >= 2 several trailing
\* chunks can.
C25_WordCountIsWindowWithinText ==
    (Returned /\ ValidFixed /\ out.chunk_calls = 1) =>
        LET words == SplitWhitespace(doc.text)
            n == strategy.chunk_size
            step == n - strategy.overlap
        IN  /\ \A j \in 1..Len(out.chunks) :
                   LET left == Len(words) - (j - 1) * step
                   IN  out.chunks[j].word_count = IF n < left THEN n ELSE left
            /\ strategy.overlap <= 1 =>
                   \A j \in 1..(Len(out.chunks) - 1) : out.chunks[j].word_count = n

\* windows of three words advancing by one over three words: the second
\* chunk is not the last and holds two words
C25_Witness ==
    /\ Returned /\ ValidFixed /\ out.chunk_calls = 1
    /\ strategy.chunk_size = 3 /\ strategy.overlap = 2
    /\ Len(out.chunks) = 3
    /\ out.chunks[1].word_count = 3
    /\ out.chunks[2].word_count = 2

\* ---- C26 ----
\* an extractor that branches on the format has ended on a file routed by
\* a supplied original name
RoutedByOriginalName ==
    /\ proc \in {"TextProcessor", "ExcelProcessor"}
    /\ ProcessEnded
    /\ file.original_name \notin {None, <<>>}

\* C26: the format-specific branch taken inside an extractor agrees with
\* the extension the router used: with an original name supplied, a file
\* routed as .md gets Markdown table and heading extraction, a file routed
\* as .rst gets heading extraction, and a readable file routed as .csv is
\* read as CSV, whatever extension file_path has.
C26_BranchAgreesWithRoutedExtension ==
    RoutedByOriginalName =>
        LET ext == RoutedExt(file.path, file.original_name)
        IN  /\ (proc = "TextProcessor" /\ ppc = "returned" /\ ext = <<".", "m", "d">>) =>
                   /\ res.tables = ExtractMarkdownTables(file.lines, file.final_newline)
                   /\ "headings" \in DOMAIN res.metadata
            /\ (proc = "TextProcessor" /\ ppc = "returned" /\ ext = <<".", "r", "s", "t">>) =>
                   "headings" \in DOMAIN res.metadata
            /\ (proc = "ExcelProcessor" /\ file.readable /\ ext = <<".", "c", "s", "v">>) =>
                   /\ ppc = "returned"
                   /\ res.metadata.file_type = "csv"

\* ---- C27 ----
EnrichmentFields == {"has_tables", "has_images", "has_formulas", "keywords"}

\* the chunks the strategy handed to generate_chunks, before enrichment
ProducedChunks ==
    Chunk(strategy, doc.text,
          Get(doc, "metadata", [id |-> <<"default", 0>>, items |-> EmptyItems])).chunks

\* C27: enrichment only adds fields: every chunk generate_chunks returns
\* has text, chunk_index, char_count, word_count, sentence_count and
\* metadata exactly as the strategy produced them, has has_tables,
\* has_images, has_formulas and keywords added as new fields, once each,
\* and the input document is after the call what it was before.
C27_EnrichmentOnlyAddsFields ==
    (call = "generate_chunks" /\ out.raised = None) =>
        /\ doc_after = doc
        /\ (out.chunk_calls = 1) =>
               LET produced == ProducedChunks
               IN  /\ Len(out.chunks) = Len(produced)
                   /\ \A k \in 1..Len(produced) :
                          /\ DOMAIN produced[k] \cap EnrichmentFields = {}
                          /\ DOMAIN out.chunks[k] = DOMAIN produced[k] \cup EnrichmentFields
                          /\ \A key \in DOMAIN produced[k] :
                                 out.chunks[k][key] = produced[k][key]

\* two enriched sentence chunks of a document without a formulas field
C27_Witness ==
    /\ call = "generate_chunks" /\ out.raised = None /\ out.chunk_calls = 1
    /\ strategy.class = "SentenceChunking"
    /\ Len(out.chunks) = 2
    /\ "sentence_count" \in DOMAIN out.chunks[2]
    /\ "formulas" \notin DOMAIN doc
    /\ out.chunks[1].has_tables /\ ~out.chunks[1].has_formulas

====
